---- MODULE Spec2Model ----
(***************************************************************************)
(* Model of the structured-financials reconciliation of open-dart          *)
(* (src/endpoint.py): span classification, the per-year equation solver,   *)
(* report aggregation / normalisation and the daily fetch cache.           *)
(*                                                                         *)
(* Python's None is modelled as the empty sequence <<>> and a present      *)
(* value v as <<v>>.  Decimal amounts are modelled as integers.            *)
(***************************************************************************)
EXTENDS Integers, Sequences, FiniteSets, TLC

VARIABLES
    \* span classifier (SpecSpan)
    span_start, span_end, span_out,
    \* _solve_year (SpecSolve)
    equations, annual_ytd, pending_by_len, solved, changed, idx,
    solve_pc, used, result,
    \* _fetch_raw_structures_async / _aggregate_one_report /
    \* _normalise_financials (SpecAgg)
    bs_snap, is_eqs, is_ytd_latest, merged, cons_fin, agg_pc,
    \* _get_financials_cached (SpecCache)
    api_cache, cache_date, cache_lock, clock, th, issued, clears, calls,
    \* _iter_year_quarters / _fetch_raw_structures_async (SpecGrid, SpecBatch)
    today, tasks, max_workers, runs, sem, unit, done_q, batch_pc,
    \* GET /financials/{stock_code} (SpecService)
    svc,
    \* group_reports_by_type (SpecItems)
    grp

spanVars  == <<span_start, span_end, span_out>>
solveVars == <<equations, annual_ytd, pending_by_len, solved, changed,
               idx, solve_pc, used, result>>
aggVars   == <<bs_snap, is_eqs, is_ytd_latest, merged, cons_fin, agg_pc>>
cacheVars == <<api_cache, cache_date, cache_lock, clock, th, issued, clears,
               calls>>
fetchVars == <<max_workers, runs, sem, unit, done_q, batch_pc>>
batchVars == <<today, tasks, fetchVars, svc, grp>>
vars      == <<spanVars, solveVars, aggVars, cacheVars, batchVars>>

NoneVal == <<>>
Some(v) == <<v>>

Max(S) == CHOOSE m \in S : \A x \in S : x <= m
Min(S) == CHOOSE m \in S : \A x \in S : m <= x

(***************************************************************************)
(* Dates (datetime.datetime restricted to year, month, day).               *)
(***************************************************************************)
FIRST_YEAR_SUPPORTED == 2015

\* Number of calendar years, from FIRST_YEAR_SUPPORTED on, that end dates
\* are drawn from; start dates also cover the year before.
SpanYears == 2

IsLeap(y) == (y % 4 = 0 /\ y % 100 # 0) \/ y % 400 = 0

DaysInMonth(y, m) ==
    IF m = 2 THEN (IF IsLeap(y) THEN 29 ELSE 28)
    ELSE IF m \in {4, 6, 9, 11} THEN 30 ELSE 31

RECURSIVE DaysBeforeMonth(_, _)
DaysBeforeMonth(y, m) ==
    IF m = 1 THEN 0 ELSE DaysBeforeMonth(y, m - 1) + DaysInMonth(y, m - 1)

\* datetime.toordinal(): proleptic Gregorian day number
Ordinal(dt) ==
    LET y1 == dt.y - 1
    IN  365 * y1 + (y1 \div 4) - (y1 \div 100) + (y1 \div 400)
        + DaysBeforeMonth(dt.y, dt.m) + dt.d

Date(y, m, d) == [y |-> y, m |-> m, d |-> d]

DatesOf(years) ==
    { Date(y, m, d) : y \in years, m \in 1..12, d \in 1..31 }
        \ { dt \in [y : years, m : 1..12, d : 29..31] : dt.d > DaysInMonth(dt.y, dt.m) }

EndDates   == DatesOf(FIRST_YEAR_SUPPORTED .. (FIRST_YEAR_SUPPORTED + SpanYears - 1))
StartDates == DatesOf((FIRST_YEAR_SUPPORTED - 1) .. (FIRST_YEAR_SUPPORTED + SpanYears - 1))

(***************************************************************************)
(* Pure helpers                                                            *)
(***************************************************************************)
\* _q_index
QIndex(dt) == ((dt.m - 1) \div 3) + 1

\* KIFRS_QUARTER_LIMITS: (quarters, max_days), ascending
KIFRS_QUARTER_LIMITS ==
    << [quarters |-> 1, max_days |-> 111],
       [quarters |-> 2, max_days |-> 201],
       [quarters |-> 3, max_days |-> 291] >>

\* mutant: strict comparison against the day thresholds
RECURSIVE SpanLenStrict(_, _, _)
SpanLenStrict(i, delta_days, q_end) ==
    IF i > Len(KIFRS_QUARTER_LIMITS) THEN q_end
    ELSE IF delta_days < KIFRS_QUARTER_LIMITS[i].max_days
         THEN KIFRS_QUARTER_LIMITS[i].quarters
         ELSE SpanLenStrict(i + 1, delta_days, q_end)

\* the for ... else over KIFRS_QUARTER_LIMITS: first limit that fits, else q_end
RECURSIVE SpanLenFrom(_, _, _)
SpanLenFrom(i, delta_days, q_end) ==
    IF i > Len(KIFRS_QUARTER_LIMITS) THEN q_end
    ELSE IF delta_days <= KIFRS_QUARTER_LIMITS[i].max_days
         THEN KIFRS_QUARTER_LIMITS[i].quarters
         ELSE SpanLenFrom(i + 1, delta_days, q_end)

\* mutant: the duration thresholds are consulted before the January-1 test
QuartersFromSpanDurationFirst(start, end) ==
    LET q_end == QIndex(end)
        delta_days == Ordinal(end) - Ordinal(IF start # NoneVal THEN start[1] ELSE end) + 1
    IN  IF delta_days <= KIFRS_QUARTER_LIMITS[Len(KIFRS_QUARTER_LIMITS)].max_days
        THEN LET k == SpanLenFrom(1, delta_days, q_end)
             IN  [qs |-> (q_end - k + 1)..q_end, ytd |-> FALSE]
        ELSE IF start # NoneVal /\ start[1].m = 1 /\ start[1].d = 1 /\ start[1].y = end.y
             THEN [qs |-> 1..q_end, ytd |-> TRUE]
             ELSE [qs |-> 1..q_end, ytd |-> FALSE]

\* _quarters_from_span: (quarter set, is_ytd)
QuartersFromSpan(start, end) ==
    LET q_end == QIndex(end)
    IN  IF start # NoneVal /\ start[1].m = 1 /\ start[1].d = 1 /\ start[1].y = end.y
        THEN [qs |-> 1..q_end, ytd |-> TRUE]
        ELSE LET delta_days == Ordinal(end) - Ordinal(IF start # NoneVal THEN start[1] ELSE end) + 1
                 k == SpanLenFrom(1, delta_days, q_end)
             IN  [qs |-> (q_end - k + 1)..q_end, ytd |-> FALSE]

(***************************************************************************)
(* Insertion-ordered dict (Python dict): a sequence of [k, v] entries with *)
(* pairwise distinct keys.  Keys of `solved` are quarter numbers or "all". *)
(***************************************************************************)
QKey(q) == [all |-> FALSE, q |-> q]
AllKey  == [all |-> TRUE, q |-> 0]

HasKey(d, k) == \E i \in 1..Len(d) : d[i].k = k
Get(d, k)    == d[CHOOSE i \in 1..Len(d) : d[i].k = k].v
Put(d, k, v) ==
    IF HasKey(d, k)
    THEN [i \in 1..Len(d) |-> IF d[i].k = k THEN [k |-> k, v |-> v] ELSE d[i]]
    ELSE Append(d, [k |-> k, v |-> v])
Keys(d)      == { d[i].k : i \in 1..Len(d) }
SolvedQs(d)  == { k.q : k \in { kk \in Keys(d) : ~kk.all } }

\* str(int)
Digits == <<"0", "1", "2", "3", "4", "5", "6", "7", "8", "9">>
RECURSIVE NatStr(_)
NatStr(n) == IF n < 10 THEN Digits[n + 1] ELSE NatStr(n \div 10) \o Digits[(n % 10) + 1]
IntStr(n) == IF n < 0 THEN "-" \o NatStr(-n) ELSE NatStr(n)
KeyStr(k) == IF k.all THEN "all" ELSE IntStr(k.q)

\* str.isdigit() and int(str) on a digit string
DigitVal(c) == (CHOOSE i \in 1..10 : Digits[i] = c) - 1
IsDigitStr(s) ==
    Len(s) > 0 /\ \A i \in 1..Len(s) : \E j \in 1..10 : Digits[j] = SubSeq(s, i, i)
RECURSIVE StrInt(_)
StrInt(s) ==
    IF Len(s) = 0 THEN 0
    ELSE 10 * StrInt(SubSeq(s, 1, Len(s) - 1)) + DigitVal(SubSeq(s, Len(s), Len(s)))

\* float(Decimal): exact for the integer amounts of the model, which all lie
\* far inside the 53-bit range in which every integer is a double.
ToFloat(v) == v

\* sort key of _ordered_qmap: (x == "all", int(str(x)) if str(x).isdigit() else 0)
SortKey(k) ==
    << IF k.all THEN 1 ELSE 0,
       IF IsDigitStr(KeyStr(k)) THEN StrInt(KeyStr(k)) ELSE 0 >>
KeyLess(a, b) == a[1] < b[1] \/ (a[1] = b[1] /\ a[2] < b[2])

\* sorted(): stable insertion of e into an already sorted sequence
RECURSIVE InsertSorted(_, _)
InsertSorted(sorted, e) ==
    IF sorted = <<>> THEN <<e>>
    ELSE IF KeyLess(SortKey(e.k), SortKey(sorted[Len(sorted)].k))
         THEN Append(InsertSorted(SubSeq(sorted, 1, Len(sorted) - 1), e), sorted[Len(sorted)])
         ELSE Append(sorted, e)
RECURSIVE SortedDict(_)
SortedDict(d) ==
    IF d = <<>> THEN <<>>
    ELSE InsertSorted(SortedDict(SubSeq(d, 1, Len(d) - 1)), d[Len(d)])

\* _ordered_qmap: ordered dict of str(key) -> float(value)
OrderedQmap(qvals) ==
    LET s == SortedDict(qvals)
    IN  [i \in 1..Len(s) |-> [label |-> KeyStr(s[i].k), value |-> ToFloat(s[i].v)]]

\* the quarter map of one snapshot account-year as a dict (its keys have
\* pairwise distinct sort keys, so insertion order does not show in the output)
RECURSIVE DictOf(_)
DictOf(qmap) ==
    IF DOMAIN qmap = {} THEN <<>>
    ELSE LET q == Max(DOMAIN qmap)
         IN  Append(DictOf([x \in (DOMAIN qmap) \ {q} |-> qmap[x]]), [k |-> QKey(q), v |-> qmap[q]])

\* a dict read as a mapping (dict equality ignores order)
AsMap(r) == { r[i] : i \in 1..Len(r) }
Labels(r) == { r[i].label : i \in 1..Len(r) }
ValueOf(r, l) == r[CHOOSE i \in 1..Len(r) : r[i].label = l].value

(***************************************************************************)
(* _solve_year                                                             *)
(***************************************************************************)
RECURSIVE SumSolved(_, _)
SumSolved(S, sol) ==
    IF S = {} THEN 0
    ELSE LET q == CHOOSE x \in S : TRUE
         IN  Get(sol, QKey(q)) + SumSolved(S \ {q}, sol)

\* unknown = [q for q in qs if q not in solved]
Unknown(sol, c) == { q \in c.qs : ~HasKey(sol, QKey(q)) }

\* mutant: a constraint is skipped only when nothing is unknown
SolvesAnyUnknown(sol, c) ==
    /\ Cardinality(Unknown(sol, c)) >= 1
    /\ ~(c.ytd /\ (CHOOSE q \in Unknown(sol, c) : TRUE) # Max(c.qs))

\* mutant: the cumulative gate is missing
SolvesNoGate(sol, c) == Cardinality(Unknown(sol, c)) = 1

\* mutant: a constraint whose unknown quarter would come out negative is skipped
SolvesNonNegative(sol, c) ==
    /\ Cardinality(Unknown(sol, c)) = 1
    /\ ~(c.ytd /\ (CHOOSE q \in Unknown(sol, c) : TRUE) # Max(c.qs))
    /\ c.amt - SumSolved(c.qs \ Unknown(sol, c), sol) >= 0

\* the two `continue` tests of the inner loop, negated
Solves(sol, c) ==
    /\ Cardinality(Unknown(sol, c)) = 1
    /\ ~(c.ytd /\ (CHOOSE q \in Unknown(sol, c) : TRUE) # Max(c.qs))

\* mutant: the solved values of the other quarters are not subtracted
ApplyConstraintWholeAmount(sol, c) ==
    IF Solves(sol, c)
    THEN Put(sol, QKey(CHOOSE q \in Unknown(sol, c) : TRUE), c.amt)
    ELSE sol

\* mutant: the solved values of the other quarters are added, not subtracted
ApplyConstraintAdds(sol, c) ==
    IF Solves(sol, c)
    THEN Put(sol, QKey(CHOOSE q \in Unknown(sol, c) : TRUE),
             c.amt + SumSolved(c.qs \ Unknown(sol, c), sol))
    ELSE sol

\* body of the inner loop for one pending constraint
ApplyConstraint(sol, c) ==
    IF Solves(sol, c)
    THEN LET q_to_solve == CHOOSE q \in Unknown(sol, c) : TRUE
         IN  Put(sol, QKey(q_to_solve),
                 c.amt - SumSolved(c.qs \ Unknown(sol, c), sol))
    ELSE sol

\* mutant: each length keeps only the constraint recorded last
GroupByLenLastOnly(eqs) ==
    [n \in { Cardinality(eqs[i].qs) : i \in 1..Len(eqs) } |->
        LET same == SelectSeq(eqs, LAMBDA c : Cardinality(c.qs) = n)
        IN  << same[Len(same)] >>]

\* pending_by_len: constraints grouped by len(qs), in input order
GroupByLen(eqs) ==
    [n \in { Cardinality(eqs[i].qs) : i \in 1..Len(eqs) } |->
        SelectSeq(eqs, LAMBDA c : Cardinality(c.qs) = n)]
PendingGet(pending, n) == IF n \in DOMAIN pending THEN pending[n] ELSE <<>>

\* the order in which one pass visits the constraints: span_len 4, 3, 2, 1
PassOrder(pending) ==
    PendingGet(pending, 4) \o PendingGet(pending, 3)
        \o PendingGet(pending, 2) \o PendingGet(pending, 1)

RECURSIVE RunPass(_, _, _)
RunPass(order, i, sol) ==
    IF i > Len(order) THEN sol
    ELSE RunPass(order, i + 1, ApplyConstraint(sol, order[i]))

\* while changed: every pass that solves a quarter is followed by another
RECURSIVE SolveLoop(_, _)
SolveLoop(order, sol) ==
    LET after == RunPass(order, 1, sol)
    IN  IF after = sol THEN sol ELSE SolveLoop(order, after)

\* mutant: the sum of four solved quarters is preferred to the explicit figure
ResolveAnnualSumFirst(sol, annual) ==
    IF \A q \in 1..4 : HasKey(sol, QKey(q))
    THEN Put(sol, AllKey, SumSolved(1..4, sol))
    ELSE IF annual # NoneVal THEN Put(sol, AllKey, annual[1]) ELSE sol

\* the annual total: explicit figure, else the sum of four solved quarters
ResolveAnnual(sol, annual) ==
    IF annual # NoneVal THEN Put(sol, AllKey, annual[1])
    ELSE IF \A q \in 1..4 : HasKey(sol, QKey(q))
         THEN Put(sol, AllKey, SumSolved(1..4, sol))
         ELSE sol

SolveYear(eqs, annual) ==
    OrderedQmap(ResolveAnnual(SolveLoop(PassOrder(GroupByLen(eqs)), <<>>), annual))

(***************************************************************************)
(* Values of the variables a specification does not use                    *)
(***************************************************************************)
SpanIdle ==
    /\ span_start = NoneVal
    /\ span_end = NoneVal
    /\ span_out = NoneVal

SolveIdle ==
    /\ equations = <<>>
    /\ annual_ytd = NoneVal
    /\ pending_by_len = <<>>
    /\ solved = <<>>
    /\ changed = FALSE
    /\ idx = 0
    /\ solve_pc = "idle"
    /\ used = NoneVal
    /\ result = NoneVal

AggIdle ==
    /\ bs_snap = <<>>
    /\ is_eqs = <<>>
    /\ is_ytd_latest = <<>>
    /\ merged = <<>>
    /\ cons_fin = NoneVal
    /\ agg_pc = "idle"

FetchIdle ==
    /\ max_workers = 0
    /\ runs = 0
    /\ sem = <<>>
    /\ unit = <<>>
    /\ done_q = <<>>
    /\ batch_pc = "idle"

ServiceIdle == svc = NoneVal

ItemsIdle == grp = NoneVal

BatchIdle ==
    /\ today = NoneVal
    /\ tasks = NoneVal
    /\ FetchIdle
    /\ ServiceIdle
    /\ ItemsIdle

CacheIdle ==
    /\ api_cache = <<>>
    /\ cache_date = 0
    /\ cache_lock = NoneVal
    /\ clock = 0
    /\ th = <<>>
    /\ issued = <<>>
    /\ clears = 0
    /\ calls = 0

(***************************************************************************)
(* SpecSpan: _quarters_from_span applied to every (start, end) of the      *)
(* bounded calendar                                                        *)
(***************************************************************************)
SpanInit ==
    /\ span_end \in { Some(e) : e \in EndDates }
    /\ span_start \in {NoneVal} \cup { Some(b) : b \in StartDates }
    /\ span_out = NoneVal
    /\ SolveIdle /\ AggIdle /\ CacheIdle /\ BatchIdle

Classify ==
    /\ span_end # NoneVal
    /\ span_out = NoneVal
    /\ span_out' = Some(QuartersFromSpan(span_start, span_end[1]))
    /\ UNCHANGED <<span_start, span_end, solveVars, aggVars, cacheVars, batchVars>>

SpanNext == Classify

SpecSpan == SpanInit /\ [][SpanNext]_vars

(***************************************************************************)
(* SpecSolve: _solve_year, one step per loop iteration, on every list of   *)
(* at most MaxEqs constraints                                              *)
(***************************************************************************)
MaxEqs == 2

Y0 == FIRST_YEAR_SUPPORTED

\* reporting intervals of one fiscal year as filings carry them
SolveSpans ==
    { <<Some(Date(Y0, 1, 1)), Date(Y0, 3, 31)>>,      \* Q1, year to date
      <<Some(Date(Y0, 1, 1)), Date(Y0, 6, 30)>>,      \* half year, year to date
      <<Some(Date(Y0, 1, 1)), Date(Y0, 9, 30)>>,      \* nine months, year to date
      <<Some(Date(Y0, 1, 1)), Date(Y0, 12, 31)>>,     \* full year
      <<Some(Date(Y0, 4, 1)), Date(Y0, 6, 30)>>,      \* Q2, three months
      <<Some(Date(Y0, 2, 1)), Date(Y0, 6, 30)>>,      \* five months to the half year
      <<Some(Date(Y0, 7, 1)), Date(Y0, 9, 30)>>,      \* Q3, three months
      <<Some(Date(Y0, 10, 1)), Date(Y0, 12, 31)>>,    \* Q4, three months
      <<Some(Date(Y0 - 1, 10, 1)), Date(Y0, 3, 31)>> } \* six months across the year end

SolveShapes == { QuartersFromSpan(sp[1], sp[2]) : sp \in SolveSpans }
SolveAmounts == {10, 20}

Constraint(qs, amt, ytd) == [qs |-> qs, amt |-> amt, ytd |-> ytd]

ConstraintPool ==
    { Constraint(sh.qs, a, sh.ytd) : sh \in SolveShapes, a \in SolveAmounts }

\* the two constraint lists of the cumulative-priming example
PrimingShort ==
    << Constraint({1, 2, 3}, 90, TRUE), Constraint({4}, 30, FALSE) >>
PrimingFull ==
    PrimingShort \o << Constraint({1, 2}, 50, TRUE), Constraint({1}, 20, FALSE) >>

\* a restated first-quarter figure beside the original one and a half-year
\* figure: constraints no assignment satisfies
Conflicting ==
    << Constraint({1}, 10, TRUE), Constraint({1}, 20, TRUE), Constraint({1, 2}, 10, TRUE) >>

\* two five-month figures for the same quarters with different amounts, a
\* six-month figure for quarters 2 and 3, and the third quarter alone
Disagreeing ==
    << Constraint({1, 2}, 10, FALSE), Constraint({1, 2}, 20, FALSE),
       Constraint({2, 3}, 30, FALSE), Constraint({3}, 10, FALSE) >>

Perms(n) == { p \in [1..n -> 1..n] : \A i, j \in 1..n : p[i] = p[j] => i = j }
Permuted(eqs, p) == [i \in 1..Len(eqs) |-> eqs[p[i]]]
PermutationsOf(eqs) == { Permuted(eqs, p) : p \in Perms(Len(eqs)) }

SolveInputs ==
    UNION { [1..n -> ConstraintPool] : n \in 0..MaxEqs }
        \cup PermutationsOf(PrimingShort) \cup PermutationsOf(PrimingFull)
        \cup PermutationsOf(Conflicting) \cup {Disagreeing}

SolveInit ==
    /\ equations \in SolveInputs
    /\ annual_ytd \in {NoneVal} \cup { Some(a) : a \in SolveAmounts }
    /\ pending_by_len = <<>>
    /\ solved = <<>>
    /\ changed = FALSE
    /\ idx = 0
    /\ solve_pc = "group"
    /\ used = NoneVal
    /\ result = NoneVal
    /\ SpanIdle /\ AggIdle /\ CacheIdle /\ BatchIdle

solveFrame == <<spanVars, aggVars, cacheVars, batchVars, equations, annual_ytd>>

\* lines 99-104: group by len(qs); solved = {}; changed = True
SolveGroup ==
    /\ solve_pc = "group"
    /\ pending_by_len' = GroupByLen(equations)
    /\ solved' = <<>>
    /\ changed' = TRUE
    /\ solve_pc' = "while"
    /\ UNCHANGED <<solveFrame, idx, used, result>>

\* mutant: the loop runs a single pass and never repeats it
SolveWhileOnePass ==
    /\ solve_pc = "while"
    /\ IF changed /\ solved = <<>> /\ idx = 0
       THEN /\ changed' = FALSE
            /\ idx' = 1
            /\ solve_pc' = "for"
       ELSE /\ solve_pc' = "annual"
            /\ UNCHANGED <<changed, idx>>
    /\ used' = NoneVal
    /\ UNCHANGED <<solveFrame, pending_by_len, solved, result>>

\* line 105-106: while changed: changed = False, and a pass begins
SolveWhile ==
    /\ solve_pc = "while"
    /\ IF changed
       THEN /\ changed' = FALSE
            /\ idx' = 1
            /\ solve_pc' = "for"
       ELSE /\ solve_pc' = "annual"
            /\ UNCHANGED <<changed, idx>>
    /\ used' = NoneVal
    /\ UNCHANGED <<solveFrame, pending_by_len, solved, result>>

\* lines 107-116: the next constraint of the pass (span_len 4, 3, 2, 1, each
\* group in list order)
SolveVisit ==
    /\ solve_pc = "for"
    /\ idx <= Len(PassOrder(pending_by_len))
    /\ LET c == PassOrder(pending_by_len)[idx]
       IN  /\ solved' = ApplyConstraint(solved, c)
           /\ changed' = (changed \/ Solves(solved, c))
           /\ used' = IF Solves(solved, c)
                      THEN Some([c |-> c, q |-> CHOOSE q \in Unknown(solved, c) : TRUE])
                      ELSE NoneVal
    /\ idx' = idx + 1
    /\ UNCHANGED <<solveFrame, pending_by_len, solve_pc, result>>

\* the two for loops are exhausted: back to the while test
SolveEndPass ==
    /\ solve_pc = "for"
    /\ idx > Len(PassOrder(pending_by_len))
    /\ solve_pc' = "while"
    /\ used' = NoneVal
    /\ UNCHANGED <<solveFrame, pending_by_len, solved, changed, idx, result>>

\* lines 118-123: the annual total and the ordered output
SolveAnnual ==
    /\ solve_pc = "annual"
    /\ solved' = ResolveAnnual(solved, annual_ytd)
    /\ result' = Some(OrderedQmap(solved'))
    /\ solve_pc' = "done"
    /\ UNCHANGED <<solveFrame, pending_by_len, changed, idx, used>>

SolveNext ==
    \/ SolveGroup
    \/ SolveWhile
    \/ SolveVisit
    \/ SolveEndPass
    \/ SolveAnnual

SpecSolve == SolveInit /\ [][SolveNext]_vars

\* the loop is sequential code on one thread: a step of the loop that can be
\* taken is taken
SolveLoopStep == SolveGroup \/ SolveWhile \/ SolveVisit \/ SolveEndPass
SpecSolveLive == SolveInit /\ [][SolveNext]_vars /\ WF_vars(SolveLoopStep)

\* the stepwise run and the function agree
SolveStepsAgree ==
    solve_pc = "done" => result[1] = SolveYear(equations, annual_ytd)

(***************************************************************************)
(* Amount text.  FinancialValue.amount is a float; _parse_decimal reads    *)
(* str(amount).  The model's amounts are whole numbers, whose str() is the *)
(* decimal digits followed by ".0".  The floats nan and inf, and the       *)
(* Decimals NaN and Infinity they are read as, are modelled as two         *)
(* integers outside the range of the amounts; no arithmetic is applied to  *)
(* them in the specifications in which they occur.                         *)
(***************************************************************************)
NaN == 0 - 1000000001
Infinity == 1000000001

FloatStr(x) ==
    CASE x = NaN      -> "nan"
      [] x = Infinity -> "inf"
      [] OTHER        -> IntStr(x) \o ".0"

RECURSIVE StripCommas(_)
StripCommas(s) ==
    IF Len(s) = 0 THEN ""
    ELSE IF SubSeq(s, 1, 1) = "," THEN StripCommas(SubSeq(s, 2, Len(s)))
         ELSE SubSeq(s, 1, 1) \o StripCommas(SubSeq(s, 2, Len(s)))

IsZeros(s) == \A i \in 1..Len(s) : SubSeq(s, i, i) = "0"

\* Decimal(s) for an unsigned literal "digits" or "digits.000": <<value>>,
\* or <<>> for InvalidOperation
UnsignedDecimal(s) ==
    LET dots == { i \in 1..Len(s) : SubSeq(s, i, i) = "." }
    IN  IF dots = {} THEN (IF IsDigitStr(s) THEN Some(StrInt(s)) ELSE NoneVal)
        ELSE LET p == Min(dots)
                 ip == SubSeq(s, 1, p - 1)
                 fp == SubSeq(s, p + 1, Len(s))
             IN  IF IsDigitStr(ip) /\ IsZeros(fp) THEN Some(StrInt(ip)) ELSE NoneVal

\* Decimal(s) with an optional sign; "nan" and "inf" are literals too
DecimalOf(s) ==
    IF s = "nan" THEN Some(NaN)
    ELSE IF s = "inf" THEN Some(Infinity)
    ELSE IF Len(s) > 0 /\ SubSeq(s, 1, 1) = "-"
    THEN LET u == UnsignedDecimal(SubSeq(s, 2, Len(s)))
         IN  IF u = NoneVal THEN NoneVal ELSE Some(0 - u[1])
    ELSE IF Len(s) > 0 /\ SubSeq(s, 1, 1) = "+"
         THEN UnsignedDecimal(SubSeq(s, 2, Len(s)))
         ELSE UnsignedDecimal(s)

\* _parse_decimal
ParseDecimal(raw) ==
    LET s0 == StripCommas(raw)
        s  == IF Len(s0) >= 2 /\ SubSeq(s0, 1, 1) = "(" /\ SubSeq(s0, Len(s0), Len(s0)) = ")"
              THEN "-" \o SubSeq(s0, 2, Len(s0) - 1) ELSE s0
        d  == DecimalOf(s)
    IN  IF d = NoneVal THEN 0 ELSE d[1]

(***************************************************************************)
(* Stores of one reconciliation run.  The nested dicts are modelled as     *)
(* maps from the tuple of the nested keys:                                 *)
(*   bs   (bs_snap)        <<cons, acct, year, quarter>> -> amount         *)
(*   eqs  (is_eqs)         <<cons, acct, year>> -> list of constraints     *)
(*   ytd  (is_ytd_latest)  <<cons, acct, year>> -> <<qmax, amount>>        *)
(***************************************************************************)
MapPut(f, k, v) == [x \in (DOMAIN f) \cup {k} |-> IF x = k THEN v ELSE f[x]]
EmptyStores == [bs |-> <<>>, eqs |-> <<>>, ytd |-> <<>>]

\* mutant: every cumulative figure replaces the tracked one
AggregateEntryLatestWins(st, entry) ==
    LET amt == ParseDecimal(FloatStr(entry.amount))
    IN  IF amt = 0 THEN st
        ELSE IF entry.stmt = "BS"
        THEN LET d == entry.report_date
             IN  [st EXCEPT !.bs = MapPut(@, <<entry.cons, entry.acct, d.y, QIndex(d)>>, amt)]
        ELSE LET start == entry.start_date
                 end   == IF entry.end_date # NoneVal THEN entry.end_date[1]
                          ELSE entry.report_date
                 cls   == QuartersFromSpan(start, end)
                 key   == <<entry.cons, entry.acct, end.y>>
                 prevE == IF key \in DOMAIN st.eqs THEN st.eqs[key] ELSE <<>>
                 withE == [st EXCEPT !.eqs = MapPut(@, key,
                              Append(prevE, Constraint(cls.qs, amt, cls.ytd)))]
             IN  IF cls.ytd
                 THEN [withE EXCEPT !.ytd = MapPut(@, key, <<Max(cls.qs), amt>>)]
                 ELSE withE

\* mutant: an entry of amount zero is stored like any other
AggregateEntryKeepsZero(st, entry) ==
    LET amt == ParseDecimal(FloatStr(entry.amount))
    IN  IF entry.stmt = "BS"
        THEN LET d == entry.report_date
             IN  [st EXCEPT !.bs = MapPut(@, <<entry.cons, entry.acct, d.y, QIndex(d)>>, amt)]
        ELSE LET start == entry.start_date
                 end   == IF entry.end_date # NoneVal THEN entry.end_date[1]
                          ELSE entry.report_date
                 cls   == QuartersFromSpan(start, end)
                 key   == <<entry.cons, entry.acct, end.y>>
                 prevE == IF key \in DOMAIN st.eqs THEN st.eqs[key] ELSE <<>>
                 withE == [st EXCEPT !.eqs = MapPut(@, key,
                              Append(prevE, Constraint(cls.qs, amt, cls.ytd)))]
             IN  IF cls.ytd /\ (key \notin DOMAIN st.ytd \/ Max(cls.qs) > st.ytd[key][1])
                 THEN [withE EXCEPT !.ytd = MapPut(@, key, <<Max(cls.qs), amt>>)]
                 ELSE withE

\* mutant: a snapshot already stored for the key is kept
AggregateEntryFirstSnapshotWins(st, entry) ==
    LET amt == ParseDecimal(FloatStr(entry.amount))
    IN  IF amt = 0 THEN st
        ELSE IF entry.stmt = "BS"
        THEN LET d == entry.report_date
                 key == <<entry.cons, entry.acct, d.y, QIndex(d)>>
             IN  IF key \in DOMAIN st.bs THEN st ELSE [st EXCEPT !.bs = MapPut(@, key, amt)]
        ELSE LET start == entry.start_date
                 end   == IF entry.end_date # NoneVal THEN entry.end_date[1]
                          ELSE entry.report_date
                 cls   == QuartersFromSpan(start, end)
                 key   == <<entry.cons, entry.acct, end.y>>
                 prevE == IF key \in DOMAIN st.eqs THEN st.eqs[key] ELSE <<>>
                 withE == [st EXCEPT !.eqs = MapPut(@, key,
                              Append(prevE, Constraint(cls.qs, amt, cls.ytd)))]
             IN  IF cls.ytd /\ (key \notin DOMAIN st.ytd \/ Max(cls.qs) > st.ytd[key][1])
                 THEN [withE EXCEPT !.ytd = MapPut(@, key, <<Max(cls.qs), amt>>)]
                 ELSE withE

\* mutant: a cumulative figure reaching the same quarter replaces the tracked one
AggregateEntryTieReplaces(st, entry) ==
    LET amt == ParseDecimal(FloatStr(entry.amount))
    IN  IF amt = 0 THEN st
        ELSE IF entry.stmt = "BS"
        THEN LET d == entry.report_date
             IN  [st EXCEPT !.bs = MapPut(@, <<entry.cons, entry.acct, d.y, QIndex(d)>>, amt)]
        ELSE LET start == entry.start_date
                 end   == IF entry.end_date # NoneVal THEN entry.end_date[1]
                          ELSE entry.report_date
                 cls   == QuartersFromSpan(start, end)
                 key   == <<entry.cons, entry.acct, end.y>>
                 prevE == IF key \in DOMAIN st.eqs THEN st.eqs[key] ELSE <<>>
                 withE == [st EXCEPT !.eqs = MapPut(@, key,
                              Append(prevE, Constraint(cls.qs, amt, cls.ytd)))]
             IN  IF cls.ytd /\ (key \notin DOMAIN st.ytd \/ Max(cls.qs) >= st.ytd[key][1])
                 THEN [withE EXCEPT !.ytd = MapPut(@, key, <<Max(cls.qs), amt>>)]
                 ELSE withE

\* lines 219-234: one entry of a series
AggregateEntry(st, entry) ==
    LET amt == ParseDecimal(FloatStr(entry.amount))
    IN  IF amt = 0 THEN st
        ELSE IF entry.stmt = "BS"
        THEN LET d == entry.report_date
             IN  [st EXCEPT !.bs = MapPut(@, <<entry.cons, entry.acct, d.y, QIndex(d)>>, amt)]
        ELSE LET start == entry.start_date
                 end   == IF entry.end_date # NoneVal THEN entry.end_date[1]
                          ELSE entry.report_date
                 cls   == QuartersFromSpan(start, end)
                 key   == <<entry.cons, entry.acct, end.y>>
                 prevE == IF key \in DOMAIN st.eqs THEN st.eqs[key] ELSE <<>>
                 withE == [st EXCEPT !.eqs = MapPut(@, key,
                              Append(prevE, Constraint(cls.qs, amt, cls.ytd)))]
             IN  IF cls.ytd /\ (key \notin DOMAIN st.ytd \/ Max(cls.qs) > st.ytd[key][1])
                 THEN [withE EXCEPT !.ytd = MapPut(@, key, <<Max(cls.qs), amt>>)]
                 ELSE withE

RECURSIVE AggregateEntries(_, _, _)
AggregateEntries(st, entries, i) ==
    IF i > Len(entries) THEN st
    ELSE AggregateEntries(AggregateEntry(st, entries[i]), entries, i + 1)

\* _aggregate_one_report: `reports` is None (<<>>) or the entries of the
\* retrieval unit in iteration order (report key, account, series position)
AggregateOneReport(st, reports) ==
    IF reports = NoneVal \/ reports[1] = <<>> THEN st
    ELSE AggregateEntries(st, reports[1], 1)

RECURSIVE AggregateAll(_, _, _)
AggregateAll(st, units, i) ==
    IF i > Len(units) THEN st
    ELSE AggregateAll(AggregateOneReport(st, units[i]), units, i + 1)

ConsBases == {"CFS", "OFS"}

\* is_ytd_latest[cons][acct].get(year, (None, None))[1]
AnnualOf(st, x) == IF x \in DOMAIN st.ytd THEN Some(st.ytd[x][2]) ELSE NoneVal
SolvedOf(st, x) == SolveYear(st.eqs[x], AnnualOf(st, x))

\* the snapshot cells of one basis, account and year as an ordered quarter map
SnapshotQmap(st, cons, acct, year) ==
    LET qs == { x[4] : x \in { y \in DOMAIN st.bs :
                                 y[1] = cons /\ y[2] = acct /\ y[3] = year } }
    IN  OrderedQmap(DictOf([q \in qs |-> st.bs[<<cons, acct, year, q>>]]))

\* _normalise_financials: per consolidation basis, the BS and IS maps from
\* <<account, str(year)>> to the ordered quarter map; an account-year whose
\* solved map is empty is left out
NormaliseFinancials(st) ==
    [cons \in ConsBases |->
        [BS |-> [k \in { <<x[2], IntStr(x[3])>> : x \in { y \in DOMAIN st.bs : y[1] = cons } } |->
                    SnapshotQmap(st, cons, k[1], StrInt(k[2]))],
         IS |-> [k \in { <<x[2], IntStr(x[3])>> :
                           x \in { y \in DOMAIN st.eqs : y[1] = cons /\ SolvedOf(st, y) # <<>> } } |->
                    SolvedOf(st, <<cons, k[1], StrInt(k[2])>>)]]]

(***************************************************************************)
(* SpecAgg: one reconciliation run.  Retrieval units complete in any order *)
(* (asyncio.as_completed) and each is merged by _aggregate_one_report;     *)
(* _normalise_financials then builds the output.                           *)
(***************************************************************************)
\* number of retrieval units merged in one run
MaxUnits == 4

ISEntry(cons, acct, start, end, amt) ==
    [cons |-> cons, stmt |-> "IS", acct |-> acct, report_date |-> end,
     start_date |-> Some(start), end_date |-> Some(end), amount |-> amt]
BSEntry(cons, acct, date, amt) ==
    [cons |-> cons, stmt |-> "BS", acct |-> acct, report_date |-> date,
     start_date |-> NoneVal, end_date |-> NoneVal, amount |-> amt]

\* results of retrieval units: first-quarter, half-year, third-quarter and
\* annual filings of year Y0, a restated first quarter, a filing of zero
\* amounts, a standalone (OFS) filing, an interval across the year end, and
\* "no data" (None)
UnitQ1     == Some(<< BSEntry("CFS", "Assets", Date(Y0, 3, 31), 100),
                      ISEntry("CFS", "Rev", Date(Y0, 1, 1), Date(Y0, 3, 31), 10) >>)
UnitQ2     == Some(<< BSEntry("CFS", "Assets", Date(Y0, 6, 30), 110),
                      ISEntry("CFS", "Rev", Date(Y0, 4, 1), Date(Y0, 6, 30), 10) >>)
UnitQ3     == Some(<< ISEntry("CFS", "Rev", Date(Y0, 7, 1), Date(Y0, 9, 30), 10) >>)
UnitQ4     == Some(<< ISEntry("CFS", "Rev", Date(Y0, 10, 1), Date(Y0, 12, 31), 10) >>)
UnitAnnual == Some(<< ISEntry("CFS", "Rev", Date(Y0, 1, 1), Date(Y0, 12, 31), 40) >>)
UnitQ1Restated ==
              Some(<< BSEntry("CFS", "Assets", Date(Y0, 3, 31), 120),
                      ISEntry("CFS", "Rev", Date(Y0, 1, 1), Date(Y0, 3, 31), 20) >>)
UnitZero   == Some(<< BSEntry("CFS", "Assets", Date(Y0, 3, 31), 0),
                      ISEntry("CFS", "Rev", Date(Y0, 1, 1), Date(Y0, 3, 31), 0) >>)
UnitOFS    == Some(<< BSEntry("OFS", "Assets", Date(Y0, 3, 31), 100),
                      ISEntry("OFS", "Rev", Date(Y0, 1, 1), Date(Y0, 6, 30), 20) >>)
UnitAcrossYears ==
              Some(<< ISEntry("CFS", "Rev", Date(Y0 - 1, 10, 1), Date(Y0, 3, 31), 10) >>)
UnitNoData == NoneVal

UnitList ==
    << UnitQ1, UnitQ2, UnitQ3, UnitQ4, UnitAnnual, UnitQ1Restated, UnitZero,
       UnitOFS, UnitAcrossYears, UnitNoData >>
UnitPool == { UnitList[i] : i \in 1..Len(UnitList) }

Stores == [bs |-> bs_snap, eqs |-> is_eqs, ytd |-> is_ytd_latest]

\* lines 182-186: fresh, empty stores
AggInit ==
    /\ bs_snap = <<>>
    /\ is_eqs = <<>>
    /\ is_ytd_latest = <<>>
    /\ merged = <<>>
    /\ cons_fin = NoneVal
    /\ agg_pc = "fetch"
    /\ SpanIdle /\ SolveIdle /\ CacheIdle /\ BatchIdle

\* lines 198-200: the next completed unit is merged into the stores (each
\* unit completes once)
AggregateUnit ==
    /\ agg_pc = "fetch"
    /\ Len(merged) < MaxUnits
    /\ \E reports \in UnitPool \ { merged[i] : i \in 1..Len(merged) } :
          LET st == AggregateOneReport(Stores, reports)
          IN  /\ bs_snap' = st.bs
              /\ is_eqs' = st.eqs
              /\ is_ytd_latest' = st.ytd
              /\ merged' = Append(merged, reports)
    /\ UNCHANGED <<cons_fin, agg_pc, spanVars, solveVars, cacheVars, batchVars>>

\* lines 272-276: every unit has completed; the stores are normalised
Normalise ==
    /\ agg_pc = "fetch"
    /\ cons_fin' = Some(NormaliseFinancials(Stores))
    /\ agg_pc' = "done"
    /\ UNCHANGED <<bs_snap, is_eqs, is_ytd_latest, merged, spanVars, solveVars, cacheVars, batchVars>>

AggNext ==
    \/ AggregateUnit
    \/ Normalise

SpecAgg == AggInit /\ [][AggNext]_vars

(***************************************************************************)
(* SpecEntries: the loop of _aggregate_one_report over the entries of the  *)
(* reports, one entry per step, from empty stores; `merged` is the list of *)
(* the entries processed so far.                                           *)
(***************************************************************************)
MaxEntries == 3

\* balance and flow entries of filings: two amounts and two report dates for
\* one snapshot key, other keys, cumulative and three-month intervals, and
\* amounts of zero
EntryPool ==
    { BSEntry("CFS", "Assets", Date(Y0, 3, 31), 100),
      BSEntry("CFS", "Assets", Date(Y0, 3, 31), 120),
      BSEntry("CFS", "Assets", Date(Y0, 2, 28), 130),
      BSEntry("CFS", "Assets", Date(Y0, 6, 30), 110),
      BSEntry("OFS", "Assets", Date(Y0, 3, 31), 100),
      BSEntry("CFS", "Assets", Date(Y0, 3, 31), 0),
      ISEntry("CFS", "Rev", Date(Y0, 1, 1), Date(Y0, 3, 31), 10),
      ISEntry("CFS", "Rev", Date(Y0, 1, 1), Date(Y0, 3, 31), 20),
      ISEntry("CFS", "Rev", Date(Y0, 1, 1), Date(Y0, 6, 30), 30),
      ISEntry("CFS", "Rev", Date(Y0, 4, 1), Date(Y0, 6, 30), 10),
      ISEntry("CFS", "Rev", Date(Y0, 1, 1), Date(Y0, 6, 30), 0) }

EntriesInit ==
    /\ bs_snap = <<>>
    /\ is_eqs = <<>>
    /\ is_ytd_latest = <<>>
    /\ merged = <<>>
    /\ cons_fin = NoneVal
    /\ agg_pc = "entries"
    /\ SpanIdle /\ SolveIdle /\ CacheIdle /\ BatchIdle

\* lines 218-234: the next entry of a series
ProcessEntry ==
    /\ agg_pc = "entries"
    /\ Len(merged) < MaxEntries
    /\ \E entry \in EntryPool :
          LET st == AggregateEntry(Stores, entry)
          IN  /\ bs_snap' = st.bs
              /\ is_eqs' = st.eqs
              /\ is_ytd_latest' = st.ytd
              /\ merged' = Append(merged, entry)
    /\ UNCHANGED <<cons_fin, agg_pc, spanVars, solveVars, cacheVars, batchVars>>

EntriesNext == ProcessEntry

SpecEntries == EntriesInit /\ [][EntriesNext]_vars

(***************************************************************************)
(* SpecItems: CompanyFinancialReport.group_reports_by_type applied to the  *)
(* raw entries of one upstream list, and _aggregate_one_report applied to  *)
(* its result on empty stores.  A field of a raw entry is <<>> when the    *)
(* key is missing, Null when its JSON value is null, and <<text>>.         *)
(***************************************************************************)
\* number of raw entries in the list
MaxItems == 3

Null == <<"null", "null">>

RawItem(fs_div, sj_div, account_nm, amount, dt) ==
    [fs_div |-> fs_div, sj_div |-> sj_div, account_nm |-> account_nm,
     thstrm_amount |-> amount, thstrm_dt |-> dt]

ItemPool ==
    { RawItem("CFS", "BS", "Assets", Some("1,200"), Some("2015.03.31 End")),
      RawItem("CFS", "BS", "Assets", Some("130"), Some("2015.02.28")),
      RawItem("CFS", "BS", "Assets", Some("nan"), Some("2015.06.30")),
      RawItem("CFS", "BS", "Assets", Some("abc"), Some("2015.06.30")),
      RawItem("CFS", "BS", "Assets", Some("100"), NoneVal),
      RawItem("CFS", "BS", "Assets", Some("100"), Null),
      RawItem("CFS", "IS", "Rev", Some("10"), Some("2015.01.01 ~ 2015.03.31")),
      RawItem("CFS", "IS", "Rev", Some("inf"), Some("2015.01.01 ~ 2015.06.30")),
      RawItem("CFS", "IS", "Rev", Some("10"), Some("2015.01.01 ~ 2015.13.45")),
      RawItem("OFS", "IS", "Rev", Some("-"), Some("2015.01.01 ~ 2015.03.31")) }

\* str.strip() and str.split() for the blank " "
RECURSIVE LStrip(_)
LStrip(s) == IF Len(s) > 0 /\ SubSeq(s, 1, 1) = " " THEN LStrip(SubSeq(s, 2, Len(s))) ELSE s
RECURSIVE RStrip(_)
RStrip(s) == IF Len(s) > 0 /\ SubSeq(s, Len(s), Len(s)) = " " THEN RStrip(SubSeq(s, 1, Len(s) - 1)) ELSE s
Strip(s) == RStrip(LStrip(s))
Positions(s, c) == { i \in 1..Len(s) : SubSeq(s, i, i) = c }
FirstToken(s) ==
    IF Positions(s, " ") = {} THEN s ELSE SubSeq(s, 1, Min(Positions(s, " ")) - 1)

\* datetime.strptime(s, "%Y.%m.%d"): <<date>>, or <<>> for ValueError
StrpDate(s) ==
    LET dots == Positions(s, ".")
    IN  IF Cardinality(dots) # 2 THEN NoneVal
        ELSE LET p1 == Min(dots)
                 p2 == Max(dots)
                 ys == SubSeq(s, 1, p1 - 1)
                 ms == SubSeq(s, p1 + 1, p2 - 1)
                 ds == SubSeq(s, p2 + 1, Len(s))
             IN  IF /\ IsDigitStr(ys) /\ Len(ys) = 4
                    /\ IsDigitStr(ms) /\ Len(ms) <= 2
                    /\ IsDigitStr(ds) /\ Len(ds) <= 2
                    /\ StrInt(ys) >= 1
                    /\ StrInt(ms) \in 1..12
                    /\ StrInt(ds) >= 1
                    /\ StrInt(ds) <= DaysInMonth(StrInt(ys), StrInt(ms))
                 THEN Some(Date(StrInt(ys), StrInt(ms), StrInt(ds)))
                 ELSE NoneVal

\* float(s) for the literals of the model: <<value>>, or <<>> for ValueError
FloatOf(s) == DecimalOf(s)

\* lines 88-116 for one raw entry: AttributeError for a null amount or date
\* ("raise"), ValueError caught by the loop ("skip"), or the FinancialValue
ParseItem(item) ==
    IF item.thstrm_amount = Null \/ item.thstrm_dt = Null
    THEN [kind |-> "raise", entry |-> NoneVal]
    ELSE
    LET raw_amount == StripCommas(IF item.thstrm_amount = NoneVal THEN "0"
                                  ELSE item.thstrm_amount[1])
        raw_date   == Strip(IF item.thstrm_dt = NoneVal THEN "" ELSE item.thstrm_dt[1])
        tildes     == Positions(raw_date, "~")
        span       == item.sj_div = "IS" /\ tildes # {}
        start_date == IF span /\ Cardinality(tildes) = 1
                      THEN StrpDate(Strip(SubSeq(raw_date, 1, Min(tildes) - 1)))
                      ELSE NoneVal
        end_date   == IF span /\ Cardinality(tildes) = 1
                      THEN StrpDate(Strip(SubSeq(raw_date, Min(tildes) + 1, Len(raw_date))))
                      ELSE NoneVal
        report_date == IF span THEN end_date ELSE StrpDate(FirstToken(raw_date))
        amount     == FloatOf(raw_amount)
        bad        == \/ span /\ (start_date = NoneVal \/ end_date = NoneVal)
                      \/ report_date = NoneVal
                      \/ amount = NoneVal
    IN  IF bad THEN [kind |-> "skip", entry |-> NoneVal]
        ELSE [kind |-> "entry",
              entry |-> Some([cons |-> item.fs_div, stmt |-> item.sj_div,
                              acct |-> item.account_nm, report_date |-> report_date[1],
                              start_date |-> IF span THEN start_date ELSE NoneVal,
                              end_date |-> IF span THEN end_date ELSE NoneVal,
                              amount |-> amount[1]])]

\* group_reports_by_type: the FinancialValues in the order in which
\* _aggregate_one_report visits them: by report (created at the first raw
\* entry of its key, faulty or not), by account (created at its first
\* value), and within a series by report_date (a stable sort after every
\* append); "raised" when an entry raises
GroupReports(raw_items) ==
    LET n        == Len(raw_items)
        parsed   == [i \in 1..n |-> ParseItem(raw_items[i])]
        valid    == { i \in 1..n : parsed[i].kind = "entry" }
        report(i) == <<raw_items[i].fs_div, raw_items[i].sj_div>>
        acct(i)   == <<raw_items[i].fs_div, raw_items[i].sj_div, raw_items[i].account_nm>>
        key(i)   == << Min({ j \in 1..n : report(j) = report(i) }),
                       Min({ j \in valid : acct(j) = acct(i) }),
                       Ordinal(parsed[i].entry[1].report_date),
                       i >>
        less(a, b) == \E k \in 1..4 : a[k] < b[k] /\ \A l \in 1..(k - 1) : a[l] = b[l]
        rank(i)  == Cardinality({ j \in valid : less(key(j), key(i)) }) + 1
    IN  IF \E i \in 1..n : parsed[i].kind = "raise"
        THEN [raised |-> TRUE, reports |-> NoneVal]
        ELSE [raised |-> FALSE,
              reports |-> Some([k \in 1..Cardinality(valid) |->
                                   parsed[CHOOSE i \in valid : rank(i) = k].entry[1]])]

RECURSIVE SeqsUpTo(_, _)
SeqsUpTo(S, n) ==
    IF n = 0 THEN { <<>> }
    ELSE LET shorter == SeqsUpTo(S, n - 1)
         IN  shorter \cup { Append(q, x) : q \in { r \in shorter : Len(r) = n - 1 }, x \in S }

\* get_financials lines 142-148: a non-empty list is handed on
ItemsInit ==
    /\ grp \in { Some([pc |-> "group", raw_items |-> items, reports |-> NoneVal]) :
                 items \in SeqsUpTo(ItemPool, MaxItems) \ { <<>> } }
    /\ today = NoneVal /\ tasks = NoneVal /\ FetchIdle /\ ServiceIdle
    /\ bs_snap = <<>> /\ is_eqs = <<>> /\ is_ytd_latest = <<>>
    /\ merged = <<>> /\ cons_fin = NoneVal /\ agg_pc = "idle"
    /\ SpanIdle /\ SolveIdle /\ CacheIdle

itemsFrame == <<today, tasks, fetchVars, svc, spanVars, solveVars, cacheVars,
                merged, cons_fin, agg_pc>>

\* group_reports_by_type over the whole list
GroupItems ==
    /\ grp[1].pc = "group"
    /\ LET got == GroupReports(grp[1].raw_items)
       IN  grp' = Some([grp[1] EXCEPT !.pc = IF got.raised THEN "raised" ELSE "aggregate",
                                       !.reports = got.reports])
    /\ UNCHANGED <<bs_snap, is_eqs, is_ytd_latest, itemsFrame>>

\* _aggregate_one_report on the grouped reports
AggregateReports ==
    /\ grp[1].pc = "aggregate"
    /\ LET st == AggregateOneReport(Stores, grp[1].reports)
       IN  /\ bs_snap' = st.bs
           /\ is_eqs' = st.eqs
           /\ is_ytd_latest' = st.ytd
    /\ grp' = Some([grp[1] EXCEPT !.pc = "done"])
    /\ UNCHANGED itemsFrame

ItemsNext ==
    \/ GroupItems
    \/ AggregateReports

SpecItems == ItemsInit /\ [][ItemsNext]_vars

(***************************************************************************)
(* SpecGrid: the (year, quarter) cells one batch fetch requests, for every *)
(* value of date.today() in the bounded calendar.                          *)
(***************************************************************************)
\* the cells of the years from `year` to curr_year, in iteration order
RECURSIVE IterFromYear(_, _, _)
IterFromYear(year, curr_year, curr_q) ==
    IF year > curr_year THEN <<>>
    ELSE LET max_q == IF year = curr_year THEN curr_q ELSE 4
         IN  [q \in 1..max_q |-> <<year, q>>] \o IterFromYear(year + 1, curr_year, curr_q)

\* _iter_year_quarters
IterYearQuarters(start_year, td) ==
    IterFromYear(start_year, td.y, QIndex(Date(td.y, td.m, 1)))

GridInit ==
    /\ today \in { Some(d) : d \in EndDates }
    /\ tasks = NoneVal
    /\ FetchIdle /\ ServiceIdle /\ ItemsIdle
    /\ SpanIdle /\ SolveIdle /\ AggIdle /\ CacheIdle

\* lines 188-191: one retrieval per cell of the grid
BuildTasks ==
    /\ today # NoneVal
    /\ tasks = NoneVal
    /\ tasks' = Some(IterYearQuarters(FIRST_YEAR_SUPPORTED, today[1]))
    /\ UNCHANGED <<today, fetchVars, svc, grp, spanVars, solveVars, aggVars, cacheVars>>

GridNext == BuildTasks

SpecGrid == GridInit /\ [][GridNext]_vars

(***************************************************************************)
(* SpecCache: _get_financials_cached called from executor threads.  A call *)
(* is a sequence of steps between which other threads run; date.today()   *)
(* is the day number `clock`.                                              *)
(***************************************************************************)
NThreads == 2
MaxDay == 2
MaxCalls == 3

Threads == 1..NThreads
CorpId == "00126380"
ApiKey == "KEY"
CacheKeys == { <<CorpId, FIRST_YEAR_SUPPORTED, q>> : q \in {1, 2} }

\* `sub in s` for strings
Contains(s, sub) ==
    \E i \in 1..(Len(s) - Len(sub) + 1) : SubSeq(s, i, i + Len(sub) - 1) = sub

BASEURL == "https://opendart.fss.or.kr/api/fnlttSinglAcnt.json"
quarter_map == [q \in 1..4 |->
    CASE q = 1 -> "11013" [] q = 2 -> "11012" [] q = 3 -> "11014" [] q = 4 -> "11011"]

\* the request of get_financials with the crtfc_key added by BaseAPI._get
RequestUrl(key) ==
    BASEURL \o "?corp_code=" \o key[1] \o "&bsns_year=" \o IntStr(key[2])
            \o "&reprt_code=" \o quarter_map[key[3]] \o "&crtfc_key=" \o ApiKey

\* what the upstream service does with one request: a non-empty list, an
\* empty list, a DART status other than "000" with its message, an HTTP
\* error status, or no response in time
Responses ==
    { [kind |-> "list",   status |-> "000", message |-> ""],
      [kind |-> "empty",  status |-> "000", message |-> ""],
      [kind |-> "status", status |-> "013", message |-> "no data"],
      [kind |-> "status", status |-> "020", message |-> "request limit exceeded"],
      [kind |-> "http",   status |-> "500", message |-> "Internal Server Error"],
      [kind |-> "timeout", status |-> "", message |-> "timed out"] }

NoData(resp) == resp.kind = "status" /\ resp.status = "013"

Returned(data) == [raised |-> FALSE, data |-> data, msg |-> ""]
Raised(msg) == [raised |-> TRUE, data |-> NoneVal, msg |-> msg]

\* BaseAPI._get: RuntimeError for a status other than "000" and for every
\* httpx.HTTPError; str() of the error raise_for_status raises names the
\* status and the request URL
BaseGet(key, resp) ==
    CASE resp.kind = "status" ->
            Raised("DART error " \o resp.status \o ": " \o resp.message)
      [] resp.kind = "http" ->
            Raised("HTTP error calling DART: Server error '" \o resp.status \o " "
                   \o resp.message \o "' for url '" \o RequestUrl(key) \o "'")
      [] resp.kind = "timeout" ->
            Raised("HTTP error calling DART: " \o resp.message)
      [] OTHER -> Returned(Some(resp.kind))

\* FinanciasAPI.get_financials: the grouped reports, or the error of _get,
\* or ValueError for an empty list
GetFinancials(key, resp) ==
    LET got == BaseGet(key, resp)
    IN  IF got.raised THEN got
        ELSE IF got.data = Some("empty")
        THEN Raised("Invalid API response: expected non-empty list of financial entries.")
        ELSE Returned(Some("reports"))

NoReturn == [kind |-> "none", data |-> NoneVal, msg |-> ""]
IdleThread ==
    [pc |-> "idle", key |-> NoneVal, today |-> 0, data |-> NoneVal, exc |-> "",
     resp |-> NoneVal, day |-> 0, ret |-> NoReturn]

\* module import: empty cache, _CACHE_DATE = date.today(), free lock
CacheInit ==
    /\ api_cache = <<>>
    /\ clock = 1
    /\ cache_date = 1
    /\ cache_lock = NoneVal
    /\ th = [t \in Threads |-> IdleThread]
    /\ issued = [k \in CacheKeys |-> 0]
    /\ clears = 0
    /\ calls = 0
    /\ SpanIdle /\ SolveIdle /\ AggIdle /\ BatchIdle

cacheFrame == <<spanVars, solveVars, aggVars, batchVars>>

\* midnight passes
Tick ==
    /\ clock < MaxDay
    /\ clock' = clock + 1
    /\ UNCHANGED <<api_cache, cache_date, cache_lock, th, issued, clears, calls, cacheFrame>>

\* line 137: a call starts and reads date.today()
Call(t) ==
    /\ th[t].pc = "idle"
    /\ calls < MaxCalls
    /\ \E key \in CacheKeys :
          th' = [th EXCEPT ![t] = [IdleThread EXCEPT !.pc = "check", !.key = key,
                                                     !.today = clock]]
    /\ calls' = calls + 1
    /\ UNCHANGED <<api_cache, cache_date, cache_lock, clock, issued, clears, cacheFrame>>

\* line 138: the test outside the lock
CheckDate(t) ==
    /\ th[t].pc = "check"
    /\ th' = [th EXCEPT ![t].pc = IF th[t].today # cache_date THEN "lock" ELSE "lookup"]
    /\ UNCHANGED <<api_cache, cache_date, cache_lock, clock, issued, clears, calls, cacheFrame>>

\* line 139: with _CACHE_LOCK (entry)
AcquireForDate(t) ==
    /\ th[t].pc = "lock"
    /\ cache_lock = NoneVal
    /\ cache_lock' = Some(t)
    /\ th' = [th EXCEPT ![t].pc = "recheck"]
    /\ UNCHANGED <<api_cache, cache_date, clock, issued, clears, calls, cacheFrame>>

\* line 140: the test under the lock; the lock is released when it fails
RecheckDate(t) ==
    /\ th[t].pc = "recheck"
    /\ IF th[t].today # cache_date
       THEN /\ th' = [th EXCEPT ![t].pc = "clear"]
            /\ UNCHANGED cache_lock
       ELSE /\ th' = [th EXCEPT ![t].pc = "lookup"]
            /\ cache_lock' = NoneVal
    /\ UNCHANGED <<api_cache, cache_date, clock, issued, clears, calls, cacheFrame>>

\* line 141: _API_CACHE.clear()
ClearCache(t) ==
    /\ th[t].pc = "clear"
    /\ api_cache' = <<>>
    /\ clears' = clears + 1
    /\ issued' = [k \in CacheKeys |-> 0]
    /\ th' = [th EXCEPT ![t].pc = "setdate"]
    /\ UNCHANGED <<cache_date, cache_lock, clock, calls, cacheFrame>>

\* line 142 and the end of the with block
SetDate(t) ==
    /\ th[t].pc = "setdate"
    /\ cache_date' = th[t].today
    /\ cache_lock' = NoneVal
    /\ th' = [th EXCEPT ![t].pc = "lookup"]
    /\ UNCHANGED <<api_cache, clock, issued, clears, calls, cacheFrame>>

\* line 145: key in _API_CACHE
Lookup(t) ==
    /\ th[t].pc = "lookup"
    /\ th' = [th EXCEPT ![t].pc = IF th[t].key \in DOMAIN api_cache THEN "hit" ELSE "fetch"]
    /\ UNCHANGED <<api_cache, cache_date, cache_lock, clock, issued, clears, calls, cacheFrame>>

\* line 146: return _API_CACHE[key] (KeyError when the entry is gone)
ReturnCached(t) ==
    /\ th[t].pc = "hit"
    /\ th' = [th EXCEPT ![t] = [IdleThread EXCEPT !.ret =
                 IF th[t].key \in DOMAIN api_cache
                 THEN [kind |-> "value", data |-> api_cache[th[t].key], msg |-> ""]
                 ELSE [kind |-> "raise", data |-> NoneVal, msg |-> "KeyError"]]]
    /\ UNCHANGED <<api_cache, cache_date, cache_lock, clock, issued, clears, calls, cacheFrame>>

\* line 149: the underlying retrieval; `day` notes the calendar day on which
\* the request was made
Retrieve(t) ==
    /\ th[t].pc = "fetch"
    /\ \E resp \in Responses :
          LET got == GetFinancials(th[t].key, resp)
          IN  th' = [th EXCEPT ![t].pc = IF got.raised THEN "except" ELSE "store",
                               ![t].data = got.data,
                               ![t].exc = got.msg,
                               ![t].resp = Some(resp),
                               ![t].day = clock]
    /\ issued' = [issued EXCEPT ![th[t].key] = @ + 1]
    /\ UNCHANGED <<api_cache, cache_date, cache_lock, clock, clears, calls, cacheFrame>>

\* lines 150-156: every exception is an API_ERRORS instance (_OpenDartError
\* is Exception); "013" in str(exc) makes data None, anything else re-raises
HandleError(t) ==
    /\ th[t].pc = "except"
    /\ IF Contains(th[t].exc, "013")
       THEN /\ th' = [th EXCEPT ![t].pc = "store", ![t].data = NoneVal]
            /\ UNCHANGED issued
       ELSE /\ th' = [th EXCEPT ![t] = [IdleThread EXCEPT !.ret =
                         [kind |-> "raise", data |-> NoneVal, msg |-> th[t].exc]]]
            /\ issued' = [issued EXCEPT ![th[t].key] = 0]
    /\ UNCHANGED <<api_cache, cache_date, cache_lock, clock, clears, calls, cacheFrame>>

\* lines 158-160: with _CACHE_LOCK: _API_CACHE[key] = data; return data
StoreAndReturn(t) ==
    /\ th[t].pc = "store"
    /\ cache_lock = NoneVal
    /\ api_cache' = MapPut(api_cache, th[t].key, th[t].data)
    /\ th' = [th EXCEPT ![t] = [IdleThread EXCEPT !.ret =
                 [kind |-> "value", data |-> th[t].data, msg |-> ""]]]
    /\ UNCHANGED <<cache_date, cache_lock, clock, issued, clears, calls, cacheFrame>>

CacheNext ==
    \/ Tick
    \/ \E t \in Threads : Call(t)
    \/ \E t \in Threads : CheckDate(t)
    \/ \E t \in Threads : AcquireForDate(t)
    \/ \E t \in Threads : RecheckDate(t)
    \/ \E t \in Threads : ClearCache(t)
    \/ \E t \in Threads : SetDate(t)
    \/ \E t \in Threads : Lookup(t)
    \/ \E t \in Threads : ReturnCached(t)
    \/ \E t \in Threads : Retrieve(t)
    \/ \E t \in Threads : HandleError(t)
    \/ \E t \in Threads : StoreAndReturn(t)

SpecCache == CacheInit /\ [][CacheNext]_vars

(***************************************************************************)
(* SpecBatch: _fetch_raw_structures_async called run after run on one day. *)
(* Every cell of the grid is one retrieval unit: the coroutine sem_coro    *)
(* takes a permit of the run's semaphore, runs _get_financials_cached in   *)
(* an executor thread and gives the permit back; the as_completed loop     *)
(* merges the units in completion done_q.  The units of a run that raised   *)
(* are not cancelled and go on under that run's semaphore.                 *)
(***************************************************************************)
\* largest worker limit a run is given and number of runs
MaxWorkers == 2
MaxRuns == 2

\* values of date.today(): one cell and two cells in the grid
BatchDays == { Date(Y0, 2, 10), Date(Y0, 5, 10) }

\* what the upstream service answers to the retrieval of a unit
BatchResponses == { resp \in Responses : resp.kind \in {"list", "status", "http"} }

CellKey(cell) == <<CorpId, cell[1], cell[2]>>

\* the grouped reports the upstream list of a cell parses to
CellReports(key) ==
    CASE key[3] = 1 -> UnitQ1
      [] key[3] = 2 -> UnitQ2
      [] key[3] = 3 -> UnitQ3
      [] OTHER      -> UnitAnnual

PendingUnit == [pc |-> "pending", data |-> NoneVal, resp |-> NoneVal]

\* a task of an earlier run that has finished: nothing refers to it
OverUnit == [pc |-> "over", data |-> NoneVal, resp |-> NoneVal]
Unfinished(u) == u.pc \in {"pending", "lookup", "fetch"}

Cells == tasks[1]
KeyOf(i) == CellKey(Cells[i])

BatchInit ==
    /\ today \in { Some(d) : d \in BatchDays }
    /\ max_workers \in 1..MaxWorkers
    /\ tasks = NoneVal
    /\ runs = 0
    /\ sem = <<>>
    /\ unit = <<>>
    /\ done_q = <<>>
    /\ batch_pc = "idle"
    /\ api_cache = <<>>
    /\ cache_date = 1 /\ clock = 1 /\ cache_lock = NoneVal
    /\ th = <<>> /\ issued = <<>> /\ clears = 0 /\ calls = 0
    /\ ServiceIdle /\ ItemsIdle
    /\ SpanIdle /\ SolveIdle /\ AggIdle

batchFrame == <<today, max_workers, svc, grp, spanVars, solveVars, cons_fin, agg_pc,
                cache_date, cache_lock, clock, th, issued, clears, calls>>

\* a run that goes on with the stores of the run before it
StartRunKeepsStores ==
    /\ batch_pc \in {"idle", "returned", "raised"}
    /\ runs < MaxRuns
    /\ LET cells == IterYearQuarters(FIRST_YEAR_SUPPORTED, today[1])
       IN  /\ tasks' = Some(cells)
           /\ unit' = Append([r \in 1..runs |-> [i \in 1..Len(unit[r]) |->
                                   IF Unfinished(unit[r][i]) THEN unit[r][i] ELSE OverUnit]],
                              [i \in 1..Len(cells) |-> PendingUnit])
    /\ merged' = <<>>
    /\ sem' = Append(sem, max_workers)
    /\ done_q' = <<>>
    /\ runs' = runs + 1
    /\ batch_pc' = "running"
    /\ UNCHANGED <<bs_snap, is_eqs, is_ytd_latest, api_cache, batchFrame>>

\* lines 182-196: fresh stores, one task per cell, a new semaphore
StartRun ==
    /\ batch_pc \in {"idle", "returned", "raised"}
    /\ runs < MaxRuns
    /\ LET cells == IterYearQuarters(FIRST_YEAR_SUPPORTED, today[1])
       IN  /\ tasks' = Some(cells)
           /\ unit' = Append([r \in 1..runs |-> [i \in 1..Len(unit[r]) |->
                                   IF Unfinished(unit[r][i]) THEN unit[r][i] ELSE OverUnit]],
                              [i \in 1..Len(cells) |-> PendingUnit])
    /\ bs_snap' = EmptyStores.bs
    /\ is_eqs' = EmptyStores.eqs
    /\ is_ytd_latest' = EmptyStores.ytd
    /\ merged' = <<>>
    /\ sem' = Append(sem, max_workers)
    /\ done_q' = <<>>
    /\ runs' = runs + 1
    /\ batch_pc' = "running"
    /\ UNCHANGED <<api_cache, batchFrame>>

\* sem_coro without the semaphore: the retrieval starts at once
UnitAcquireNoPermit(r, i) ==
    /\ unit[r][i].pc = "pending"
    /\ sem' = [sem EXCEPT ![r] = @ - 1]
    /\ unit' = [unit EXCEPT ![r][i].pc = "lookup"]
    /\ UNCHANGED <<tasks, runs, done_q, batch_pc, aggVars, api_cache, batchFrame>>

\* line 195, `async with sem`: a permit is taken when one is free
UnitAcquire(r, i) ==
    /\ unit[r][i].pc = "pending"
    /\ sem[r] > 0
    /\ sem' = [sem EXCEPT ![r] = @ - 1]
    /\ unit' = [unit EXCEPT ![r][i].pc = "lookup"]
    /\ UNCHANGED <<tasks, runs, done_q, batch_pc, aggVars, api_cache, batchFrame>>

\* the end of sem_coro: the permit is given back on return and on raise,
\* and as_completed queues the finished unit of a run that is still awaited
Finished(r, i, rec) ==
    /\ unit' = [unit EXCEPT ![r][i] = IF r = runs THEN rec ELSE OverUnit]
    /\ sem' = [sem EXCEPT ![r] = @ + 1]
    /\ done_q' = IF r = runs /\ batch_pc = "running" THEN Append(done_q, i) ELSE done_q

\* _get_financials_cached lines 144-147 (the date is the cache's date): a
\* cached key returns its entry, another key goes on to the retrieval
UnitLookup(r, i) ==
    /\ unit[r][i].pc = "lookup"
    /\ IF KeyOf(i) \in DOMAIN api_cache
       THEN Finished(r, i, [unit[r][i] EXCEPT !.pc = "done", !.data = api_cache[KeyOf(i)]])
       ELSE /\ unit' = [unit EXCEPT ![r][i].pc = "fetch"]
            /\ UNCHANGED <<sem, done_q>>
    /\ UNCHANGED <<tasks, runs, batch_pc, aggVars, api_cache, batchFrame>>

\* the retrieval with "no data" handled like every other error
UnitRetrieveNoDataRaises(r, i) ==
    /\ unit[r][i].pc = "fetch"
    /\ \E resp \in BatchResponses :
          LET got == GetFinancials(KeyOf(i), resp)
          IN  IF got.raised
              THEN /\ Finished(r, i, [pc |-> "failed", data |-> NoneVal,
                                      resp |-> Some(resp)])
                   /\ UNCHANGED api_cache
              ELSE /\ Finished(r, i, [pc |-> "done", data |-> CellReports(KeyOf(i)),
                                      resp |-> Some(resp)])
                   /\ api_cache' = MapPut(api_cache, KeyOf(i), CellReports(KeyOf(i)))
    /\ UNCHANGED <<tasks, runs, batch_pc, aggVars, batchFrame>>

\* _get_financials_cached lines 149-160: the retrieval; "013" in the error
\* text makes the data None, any other error is raised again; data is stored
UnitRetrieve(r, i) ==
    /\ unit[r][i].pc = "fetch"
    /\ \E resp \in BatchResponses :
          LET got  == GetFinancials(KeyOf(i), resp)
              data == IF got.raised THEN NoneVal ELSE CellReports(KeyOf(i))
          IN  IF got.raised /\ ~Contains(got.msg, "013")
              THEN /\ Finished(r, i, [pc |-> "failed", data |-> NoneVal,
                                      resp |-> Some(resp)])
                   /\ UNCHANGED api_cache
              ELSE /\ Finished(r, i, [pc |-> "done", data |-> data,
                                      resp |-> Some(resp)])
                   /\ api_cache' = MapPut(api_cache, KeyOf(i), data)
    /\ UNCHANGED <<tasks, runs, batch_pc, aggVars, batchFrame>>

\* lines 198-200: the next finished unit is awaited; its reports are merged,
\* or its exception leaves the function
Consume ==
    /\ batch_pc = "running"
    /\ done_q # <<>>
    /\ LET u == unit[runs][Head(done_q)]
       IN  IF u.pc = "failed"
           THEN /\ batch_pc' = "raised"
                /\ done_q' = <<>>
                /\ UNCHANGED <<bs_snap, is_eqs, is_ytd_latest, merged>>
           ELSE LET st == AggregateOneReport(Stores, u.data)
                IN  /\ bs_snap' = st.bs
                    /\ is_eqs' = st.eqs
                    /\ is_ytd_latest' = st.ytd
                    /\ merged' = Append(merged, u.data)
                    /\ done_q' = Tail(done_q)
                    /\ UNCHANGED batch_pc
    /\ UNCHANGED <<tasks, runs, sem, unit, api_cache, batchFrame>>

\* line 202: every unit was merged; the stores are returned
ReturnStores ==
    /\ batch_pc = "running"
    /\ Len(merged) = Len(Cells)
    /\ batch_pc' = "returned"
    /\ UNCHANGED <<tasks, runs, sem, unit, done_q, aggVars, api_cache, batchFrame>>

BatchNext ==
    \/ StartRun
    \/ \E r \in 1..runs : \E i \in 1..Len(unit[r]) : UnitAcquire(r, i)
    \/ \E r \in 1..runs : \E i \in 1..Len(unit[r]) : UnitLookup(r, i)
    \/ \E r \in 1..runs : \E i \in 1..Len(unit[r]) : UnitRetrieve(r, i)
    \/ Consume
    \/ ReturnStores

SpecBatch == BatchInit /\ [][BatchNext]_vars

(***************************************************************************)
(***************************************************************************)
(* SpecService: one GET /financials/{stock_code} on an empty cache, from   *)
(* the ticker lookup to the HTTP status.  `svc` holds the request, what    *)
(* the upstream service answers to the company-summary call and to the     *)
(* retrieval of each cell, and the exception in flight (its Python type).  *)
(***************************************************************************)
\* number of cells of the grid of the request
ServiceCells == 2

\* a body that is not JSON: Response.json() raises json.JSONDecodeError
NotJson == [kind |-> "notjson", status |-> "", message |-> "Expecting value"]

\* answers to company.json: the summary, a DART status, an HTTP error
\* status, no answer in time, a body that is not JSON
SummaryResponses ==
    { [kind |-> "summary", status |-> "000", message |-> ""], NotJson }
    \cup { resp \in Responses : resp.kind \in {"status", "http", "timeout"} }

FilingResponses == Responses \cup { NotJson }

\* the type of the exception a call raises for an answer: RuntimeError from
\* BaseAPI._get, ValueError from get_financials for an empty list, and
\* JSONDecodeError, a subclass of ValueError, from Response.json()
ExcType(resp) ==
    CASE resp.kind \in {"status", "http", "timeout"} -> "RuntimeError"
      [] resp.kind \in {"empty", "notjson"}          -> "ValueError"
      [] OTHER                                        -> ""

\* get_financials for one cell: Response.json() fails before _get looks at
\* the status
FilingGet(key, resp) ==
    IF resp.kind = "notjson" THEN Raised(resp.message) ELSE GetFinancials(key, resp)

\* _get_financials_cached lines 149-156 on a key that is not cached: the
\* call raises unless it returned or the error text contains "013"
UnitRaises(key, resp) ==
    LET got == FilingGet(key, resp)
    IN  got.raised /\ ~Contains(got.msg, "013")

ServiceKey(i) == <<CorpId, Y0, i>>

ServiceInit ==
    /\ svc \in { Some([pc |-> "lookup", known |-> k, summary |-> s, filings |-> f,
                       exc |-> "", stage |-> "", status |-> 0]) :
                 k \in BOOLEAN, s \in SummaryResponses,
                 f \in [1..ServiceCells -> FilingResponses] }
    /\ today = NoneVal /\ tasks = NoneVal /\ FetchIdle /\ ItemsIdle
    /\ SpanIdle /\ SolveIdle /\ AggIdle /\ CacheIdle

serviceFrame == <<today, tasks, fetchVars, grp, spanVars, solveVars, aggVars, cacheVars>>

SvcRaise(type, stage) ==
    svc' = Some([svc[1] EXCEPT !.pc = "handler", !.exc = type, !.stage = stage])

\* line 270 and CorpCodeCache.get_id_by_stock_code: ValueError for a stock
\* code that is not in the directory
LookupCorp ==
    /\ svc[1].pc = "lookup"
    /\ IF svc[1].known
       THEN svc' = Some([svc[1] EXCEPT !.pc = "summary"])
       ELSE SvcRaise("ValueError", "lookup")
    /\ UNCHANGED serviceFrame

\* line 271 and CompanyAPI.get_company_summary
GetSummary ==
    /\ svc[1].pc = "summary"
    /\ IF ExcType(svc[1].summary) = ""
       THEN svc' = Some([svc[1] EXCEPT !.pc = "fetch"])
       ELSE SvcRaise(ExcType(svc[1].summary), "summary")
    /\ UNCHANGED serviceFrame

\* lines 272-274: the batch fetch returns when no unit raises, and
\* otherwise raises the exception of the failed unit that finishes first
FetchBatch ==
    /\ svc[1].pc = "fetch"
    /\ LET failed == { i \in 1..ServiceCells : UnitRaises(ServiceKey(i), svc[1].filings[i]) }
       IN  IF failed = {}
           THEN svc' = Some([svc[1] EXCEPT !.pc = "normalise"])
           ELSE \E i \in failed : SvcRaise(ExcType(svc[1].filings[i]), "fetch")
    /\ UNCHANGED serviceFrame

\* lines 275-276: the stores are normalised and the answer is built
BuildAnswer ==
    /\ svc[1].pc = "normalise"
    /\ svc' = Some([svc[1] EXCEPT !.pc = "handler"])
    /\ UNCHANGED serviceFrame

\* financials_fastapi.get_financials lines 89-96: ValueError is answered
\* with 404, every other exception with 502
Respond ==
    /\ svc[1].pc = "handler"
    /\ svc' = Some([svc[1] EXCEPT !.pc = "responded",
                                   !.status = CASE svc[1].exc = ""           -> 200
                                                [] svc[1].exc = "ValueError" -> 404
                                                [] OTHER                     -> 502])
    /\ UNCHANGED serviceFrame

ServiceNext ==
    \/ LookupCorp
    \/ GetSummary
    \/ FetchBatch
    \/ BuildAnswer
    \/ Respond

SpecService == ServiceInit /\ [][ServiceNext]_vars

(* Claims about _quarters_from_span (under SpecSpan)                       *)
(***************************************************************************)
QuarterOfMonth(m) ==
    CASE m \in {1, 2, 3}    -> 1
      [] m \in {4, 5, 6}    -> 2
      [] m \in {7, 8, 9}    -> 3
      [] m \in {10, 11, 12} -> 4

Classified == span_out # NoneVal

RuleACase ==
    /\ span_start # NoneVal
    /\ span_start[1].m = 1 /\ span_start[1].d = 1
    /\ span_start[1].y = span_end[1].y

\* inclusive day count of the interval, 1 when start is absent
InclusiveDays ==
    IF span_start = NoneVal THEN 1
    ELSE Ordinal(span_end[1]) - Ordinal(span_start[1]) + 1

\* C3 (as claimed): the quarter set returned by _quarters_from_span is a
\* non-empty subset of {1,2,3,4} for every end date and every start date.
C3_QuarterSetInYear ==
    Classified => (span_out[1].qs # {} /\ span_out[1].qs \subseteq 1..4)

\* C9: when start is January 1 of end's calendar year the result is
\* ({1..quarter(end)}, cumulative), whatever the number of days; Jan 1 - Mar 31
\* gives ({1}, cumulative) and Jan 1 - Jun 30 gives ({1,2}, cumulative).
C9_RuleA ==
    (Classified /\ RuleACase) =>
        /\ span_out[1] = [qs |-> 1..QuarterOfMonth(span_end[1].m), ytd |-> TRUE]
        /\ (span_end[1].m = 3 /\ span_end[1].d = 31) => span_out[1].qs = {1}
        /\ (span_end[1].m = 6 /\ span_end[1].d = 30) => span_out[1].qs = {1, 2}

\* C9 witness: Jan 1 - Jun 30, 181 days (inside the two-quarter threshold of
\* Rule B), classified cumulative over {1,2}
C9_Witness ==
    /\ Classified /\ RuleACase
    /\ span_end[1].m = 6 /\ span_end[1].d = 30
    /\ InclusiveDays = 181
    /\ span_out[1] = [qs |-> {1, 2}, ytd |-> TRUE]

\* C10: when Rule A does not apply, the span length k is 1 for d <= 111, 2 for
\* d <= 201, 3 for d <= 291 and quarter(end) beyond; the result is the k
\* quarters ending at quarter(end) and is never cumulative.
C10_RuleB ==
    (Classified /\ ~RuleACase) =>
        LET d  == InclusiveDays
            qe == QuarterOfMonth(span_end[1].m)
            k  == IF d <= 111 THEN 1
                  ELSE IF d <= 201 THEN 2
                  ELSE IF d <= 291 THEN 3
                  ELSE qe
        IN  span_out[1] = [qs |-> { q \in -3..4 : qe - k < q /\ q <= qe }, ytd |-> FALSE]

\* C10 witness: a span of exactly 201 days not starting on January 1, which
\* is classified as two quarters, not cumulative
C10_Witness ==
    /\ Classified /\ ~RuleACase
    /\ span_start # NoneVal
    /\ InclusiveDays = 201
    /\ Cardinality(span_out[1].qs) = 2
    /\ ~span_out[1].ytd

(***************************************************************************)
(* Claims about _solve_year (under SpecSolve)                              *)
(***************************************************************************)
SolveDone == solve_pc = "done"

\* A quarter set lo..hi with amount a says P(hi) - P(lo-1) = a for the prefix
\* sums P of the quarterly values, so the constraints are the edges of a
\* graph on prefix indices; an assignment of quarterly values satisfying all
\* of them exists iff no cycle of that graph has a non-zero sum.
PrefixEdges(eqs) ==
    { <<Min(eqs[i].qs) - 1, Max(eqs[i].qs), eqs[i].amt>> : i \in 1..Len(eqs) }
BothWays(E) == E \cup { <<e[2], e[1], 0 - e[3]>> : e \in E }
RECURSIVE Paths(_, _, _)
Paths(D, E, n) ==
    IF n = 0 THEN D
    ELSE Paths(D \cup { <<x[1][1], x[2][2], x[1][3] + x[2][3]>> :
                          x \in { y \in D \X E : y[1][2] = y[2][1] } }, E, n - 1)
Consistent(eqs) ==
    LET E == BothWays(PrefixEdges(eqs))
    IN  \A t \in Paths(E, E, Len(eqs)) : t[1] = t[2] => t[3] = 0

SameForEveryPermutation ==
    \A e \in PermutationsOf(equations) :
        AsMap(SolveYear(e, annual_ytd)) = AsMap(result[1])

SameKeysForEveryPermutation ==
    \A e \in PermutationsOf(equations) :
        Labels(SolveYear(e, annual_ytd)) = Labels(result[1])

\* C1 (as claimed): for every constraint list and every explicit annual
\* total, every permutation of the list gives the same SolvedYear.
C1_OrderIndependent == SolveDone => SameForEveryPermutation

\* C1 (amended): every permutation gives the same keys, and the same values
\* too whenever some assignment of quarterly values satisfies every
\* constraint of the list.
C1_OrderIndependentWhenConsistent ==
    SolveDone =>
        /\ SameKeysForEveryPermutation
        /\ SameForEveryPermutation \/ ~Consistent(equations)

\* C1 witness: the consistent four-constraint example, given in an order
\* other than its listed one, solved completely
C1_Witness ==
    /\ SolveDone
    /\ equations \in PermutationsOf(PrimingFull) \ {PrimingFull}
    /\ Consistent(equations)
    /\ equations[1].qs = {1}
    /\ {"1", "2", "3", "4"} \subseteq Labels(result[1])

\* C8: with only {1,2,3}->90 (cumulative) and {4}->30, quarter 4 = 30 and
\* quarters 1, 2, 3 stay unsolved; with {1,2}->50 (cumulative) and {1}->20
\* added, quarter 1 = 20, quarter 2 = 30, quarter 3 = 40.  A cumulative
\* constraint solves a quarter only when every quarter of its set except the
\* maximum one is already solved.
C8_CumulativePriming ==
    /\ (SolveDone /\ equations \in PermutationsOf(PrimingShort)) =>
          /\ Labels(result[1]) \ {"all"} = {"4"}
          /\ ValueOf(result[1], "4") = 30
    /\ (SolveDone /\ equations \in PermutationsOf(PrimingFull)) =>
          /\ {"1", "2", "3"} \subseteq Labels(result[1])
          /\ ValueOf(result[1], "1") = 20
          /\ ValueOf(result[1], "2") = 30
          /\ ValueOf(result[1], "3") = 40
    /\ (used # NoneVal /\ used[1].c.ytd) =>
          /\ used[1].q = Max(used[1].c.qs)
          /\ (used[1].c.qs \ {Max(used[1].c.qs)}) \subseteq (SolvedQs(solved) \ {used[1].q})

\* C8 witness: the nine-month cumulative figure of the example has just been
\* used to solve quarter 3 as 90 - 50
C8_Witness ==
    /\ equations = PrimingFull
    /\ used # NoneVal
    /\ used[1].c = Constraint({1, 2, 3}, 90, TRUE)
    /\ used[1].q = 3
    /\ Get(solved, QKey(3)) = 40

QuarterLabels == {"1", "2", "3", "4"}

\* C11: "all" is the explicit annual total whenever one is supplied, whatever
\* was solved; without one, "all" is present exactly when quarters 1 to 4 are
\* all solved and is then their sum.
C11_AnnualTotalResolution ==
    SolveDone =>
        LET r == result[1]
        IN  IF annual_ytd # NoneVal
            THEN "all" \in Labels(r) /\ ValueOf(r, "all") = annual_ytd[1]
            ELSE /\ "all" \in Labels(r) <=> QuarterLabels \subseteq Labels(r)
                 /\ "all" \in Labels(r) =>
                       ValueOf(r, "all") = ValueOf(r, "1") + ValueOf(r, "2")
                                            + ValueOf(r, "3") + ValueOf(r, "4")

\* C11 witness: four solved quarters summing to 120 and an explicit annual
\* total of 10, which is the "all" of the result
C11_Witness ==
    /\ SolveDone
    /\ equations = PrimingFull
    /\ annual_ytd = Some(10)
    /\ QuarterLabels \subseteq Labels(result[1])
    /\ ValueOf(result[1], "all") = 10

(***************************************************************************)
(* Claims about aggregation and normalisation (under SpecAgg)              *)
(***************************************************************************)
Abs(x) == IF x < 0 THEN 0 - x ELSE x

\* almost_equal of src/test.py: abs(a - b) <= 1e-6 * max(1, abs(int(b)))
AlmostEqual(a, b) == Abs(a - b) * 1000000 <= Max({1, Abs(b)})

FiveLabels == {"1", "2", "3", "4", "all"}

\* C2 (as claimed): in the normalised output, every flow account-year that
\* has "1", "2", "3", "4" and "all" has value(1)+value(2)+value(3)+value(4)
\* equal to value("all") within the tolerance.
C2_CompletenessIdentity ==
    agg_pc = "done" =>
        \A cons \in ConsBases : \A k \in DOMAIN cons_fin[1][cons].IS :
            LET qm == cons_fin[1][cons].IS[k]
            IN  FiveLabels \subseteq Labels(qm) =>
                    AlmostEqual(ValueOf(qm, "1") + ValueOf(qm, "2") + ValueOf(qm, "3")
                                    + ValueOf(qm, "4"),
                                ValueOf(qm, "all"))

BagOf(seq) ==
    [c \in { seq[i] : i \in 1..Len(seq) } |-> Cardinality({ i \in 1..Len(seq) : seq[i] = c })]

\* the normalised output with every quarter map read as a mapping
OutputMaps(out) ==
    [cons \in ConsBases |->
        [BS |-> [k \in DOMAIN out[cons].BS |-> AsMap(out[cons].BS[k])],
         IS |-> [k \in DOMAIN out[cons].IS |-> AsMap(out[cons].IS[k])]]]

SameStores(st) ==
    /\ st.bs = bs_snap
    /\ st.ytd = is_ytd_latest
    /\ DOMAIN st.eqs = DOMAIN is_eqs
    /\ \A k \in DOMAIN is_eqs : BagOf(st.eqs[k]) = BagOf(is_eqs[k])

SameOutput(st) ==
    OutputMaps(NormaliseFinancials(st)) = OutputMaps(NormaliseFinancials(Stores))

\* the units of a run in one fixed order; every completion order of a set of
\* units is a run of its own, so two completion orders of the same units give
\* the same result exactly when each gives the result of the reference order
InRun(u) == \E i \in 1..Len(merged) : merged[i] = u
ReferenceOrder == SelectSeq(UnitList, InRun)
ReferenceStores == AggregateAll(EmptyStores, ReferenceOrder, 1)

\* C7 (as claimed): whatever the order in which the units of a run are
\* merged, the snapshot store, the best cumulative figures, the constraints
\* per account-year and the normalised output are the same.
C7_MergeOrderIndependent ==
    SameStores(ReferenceStores) /\ SameOutput(ReferenceStores)

\* the non-zero entries of unit i of the run
UnitEntries(i) ==
    IF merged[i] = NoneVal THEN {}
    ELSE { e \in { merged[i][1][n] : n \in 1..Len(merged[i][1]) } :
             ParseDecimal(FloatStr(e.amount)) # 0 }
EntryEnd(e) == IF e.end_date # NoneVal THEN e.end_date[1] ELSE e.report_date
EntryClass(e) == QuartersFromSpan(e.start_date, EntryEnd(e))
SameSnapshotKey(a, b) ==
    /\ a.stmt = "BS" /\ b.stmt = "BS"
    /\ a.cons = b.cons /\ a.acct = b.acct
    /\ a.report_date.y = b.report_date.y
    /\ QIndex(a.report_date) = QIndex(b.report_date)
SameCumulativeReach(a, b) ==
    /\ a.stmt # "BS" /\ b.stmt # "BS"
    /\ a.cons = b.cons /\ a.acct = b.acct
    /\ EntryEnd(a).y = EntryEnd(b).y
    /\ EntryClass(a).ytd /\ EntryClass(b).ytd
    /\ Max(EntryClass(a).qs) = Max(EntryClass(b).qs)

\* no two units of the run disagree on a snapshot cell or on a cumulative
\* figure reaching the same quarter of the same account-year
UnitsAgree ==
    \A i, j \in 1..Len(merged) : i # j =>
        \A a \in UnitEntries(i), b \in UnitEntries(j) :
            (SameSnapshotKey(a, b) \/ SameCumulativeReach(a, b)) => a.amount = b.amount

ConstraintsConsistent == \A k \in DOMAIN is_eqs : Consistent(is_eqs[k])

\* C7 (amended): when no two units disagree on a snapshot cell or on a
\* cumulative figure reaching the same quarter, every merge order gives the
\* same snapshot store, the same best cumulative figures and the same
\* constraints per account-year as a multiset; the normalised output is the
\* same too when the constraints of each account-year are consistent.
C7_MergeOrderIndependentWhenAgreeing ==
    UnitsAgree =>
        /\ SameStores(ReferenceStores)
        /\ SameOutput(ReferenceStores) \/ ~ConstraintsConsistent

\* C7 witness: the first-quarter, half-year and annual filings and the
\* standalone filing merged with the annual one first
C7_Witness ==
    /\ merged = <<UnitAnnual, UnitOFS, UnitQ2, UnitQ1>>
    /\ UnitsAgree /\ ConstraintsConsistent
    /\ Len(is_eqs[<<"CFS", "Rev", Y0>>]) = 3
    /\ is_ytd_latest[<<"CFS", "Rev", Y0>>] = <<4, 40>>

(***************************************************************************)
(* Claims about _get_financials_cached (under SpecCache)                   *)
(***************************************************************************)
\* `issued[k]` counts the retrievals begun for key k since the cache was last
\* cleared and since a retrieval for k last ended by raising: the retrievals
\* whose result the cache should be holding or be about to hold.

\* C4 (as claimed): calls for the same key within the same day issue one
\* underlying retrieval, for every interleaving of the calls.
C4_OneRetrievalPerKey ==
    \A k \in CacheKeys : issued[k] <= 1

\* C5 (as claimed): the cache is cleared once per calendar-day transition,
\* whatever the number of callers around the day change.
C5_ClearedOncePerTransition ==
    clears <= clock - 1

\* C6 (as claimed): a call stores or returns the empty result only after the
\* upstream "no data" response; every other failure propagates uncached.
C6_OnlyNoDataBecomesEmpty ==
    \A t \in Threads :
        (th[t].pc = "store" /\ th[t].data = NoneVal) => NoData(th[t].resp[1])

(***************************************************************************)

\* C27 (as claimed): a result is stored only if it was retrieved on the
\* calendar day equal to the recorded cache date, no entry survives a change
\* of the recorded date, and the recorded date never moves back.
C27_CacheFreshness ==
    /\ [][\A t \in Threads :
            (th[t].pc = "store" /\ th'[t].pc = "idle") => th[t].day = cache_date]_vars
    /\ [][cache_date' # cache_date => api_cache' = <<>>]_vars
    /\ [][cache_date' >= cache_date]_vars
(* Claims about single entries (under SpecEntries)                         *)
(***************************************************************************)
ParsedAmount(e) == ParseDecimal(FloatStr(e.amount))
LastEntry == merged[Len(merged)]

NoZeroStored ==
    /\ \A k \in DOMAIN bs_snap : bs_snap[k] # 0
    /\ \A k \in DOMAIN is_eqs : \A i \in 1..Len(is_eqs[k]) : is_eqs[k][i].amt # 0
    /\ \A k \in DOMAIN is_ytd_latest : is_ytd_latest[k][2] # 0

ZeroEntryStep ==
    (Len(merged') = Len(merged) + 1 /\ ParsedAmount(merged'[Len(merged')]) = 0)
        => UNCHANGED <<bs_snap, is_eqs, is_ytd_latest>>

\* C12: processing an entry whose parsed amount is zero leaves the snapshot
\* store, the constraint store and the best cumulative figures unchanged, and
\* no snapshot, constraint or best cumulative figure of amount zero is stored.
C12_ZeroSuppressed == []NoZeroStored /\ [][ZeroEntryStep]_vars

\* C12 witness: a zero entry has been processed after a non-zero snapshot for
\* the same key, which is still the stored one
C12_Witness ==
    /\ Len(merged) = 2
    /\ merged[1] = BSEntry("CFS", "Assets", Date(Y0, 3, 31), 100)
    /\ ParsedAmount(LastEntry) = 0 /\ LastEntry.stmt = "BS"
    /\ bs_snap[<<"CFS", "Assets", Y0, 1>>] = 100

SnapshotKey(e) == <<e.cons, e.acct, e.report_date.y, QIndex(e.report_date)>>
\* positions of the processed non-zero balance entries with snapshot key k
SnapshotWrites(k) ==
    { i \in 1..Len(merged) :
        merged[i].stmt = "BS" /\ ParsedAmount(merged[i]) # 0 /\ SnapshotKey(merged[i]) = k }
AllSnapshotKeys == { SnapshotKey(e) : e \in { x \in EntryPool : x.stmt = "BS" } }

\* C13: the snapshot stored for a key is the amount of the last processed
\* non-zero balance entry with that key, and a key no such entry carried has
\* no snapshot (so an entry never changes the snapshot of another key).
C13_SnapshotLastWriteWins ==
    /\ DOMAIN bs_snap = { k \in AllSnapshotKeys : SnapshotWrites(k) # {} }
    /\ \A k \in DOMAIN bs_snap :
          bs_snap[k] = ParsedAmount(merged[Max(SnapshotWrites(k))])

\* C13 witness: two amounts for one key processed after a snapshot of another
\* key; the later amount is stored and the other key is untouched
C13_Witness ==
    /\ merged = << BSEntry("CFS", "Assets", Date(Y0, 6, 30), 110),
                   BSEntry("CFS", "Assets", Date(Y0, 3, 31), 100),
                   BSEntry("CFS", "Assets", Date(Y0, 2, 28), 130) >>
    /\ bs_snap[<<"CFS", "Assets", Y0, 1>>] = 130
    /\ bs_snap[<<"CFS", "Assets", Y0, 2>>] = 110

(***************************************************************************)
(* Claims about the grid of a batch fetch (under SpecGrid)                 *)
(***************************************************************************)
Requested == { tasks[1][i] : i \in 1..Len(tasks[1]) }

\* the cells whose fiscal quarter has ended before the day td
CompletedCells(td) ==
    { <<y, q>> \in (FIRST_YEAR_SUPPORTED..td.y) \X (1..4) :
        y < td.y \/ q < QuarterOfMonth(td.m) }

\* C14 (as claimed): the batch fetch requests, once each, exactly the cells
\* from (2015, 1) through the most recently completed quarter as of today,
\* never the quarter still in progress.
C14_GridThroughCompletedQuarter ==
    tasks # NoneVal =>
        /\ Requested = CompletedCells(today[1])
        /\ Len(tasks[1]) = Cardinality(Requested)

(***************************************************************************)
(* Claims about the batch fetch (under SpecBatch)                          *)
(***************************************************************************)
\* the units of run r that have started and not yet completed
InFlight(r) == { i \in 1..Len(unit[r]) : unit[r][i].pc \in {"lookup", "fetch"} }

\* C15: in every state of a batch fetch the number of units that have
\* started and not yet completed is at most max_workers, and these units are
\* exactly the holders of the permits taken from the run's semaphore (a
\* permit is held from the start of a unit until it completes or fails).
C15_BoundedConcurrency ==
    \A r \in 1..runs :
        /\ Cardinality(InFlight(r)) <= max_workers
        /\ sem[r] = max_workers - Cardinality(InFlight(r))

\* every permit is taken by a running retrieval, one more unit waits for a
\* permit, and the limit is smaller than the batch
C15_Witness ==
    /\ runs >= 1
    /\ max_workers < Len(unit[runs])
    /\ Cardinality(InFlight(runs)) = max_workers
    /\ \E i \in InFlight(runs) : unit[runs][i].pc = "fetch"
    /\ \E i \in 1..Len(unit[runs]) : unit[runs][i].pc = "pending"

(***************************************************************************)
(* Claims about the service boundary (under SpecService)                   *)
(***************************************************************************)
UpstreamFailed == svc[1].stage \in {"summary", "fetch"}

\* C16 (as claimed): the request is answered 404 exactly when the ticker is
\* unknown to the directory, and every failure of the company-summary call
\* or of a filing retrieval is answered 502, never 404.
C16_NotFoundOnlyForUnknownTicker ==
    svc # NoneVal /\ svc[1].pc = "responded" =>
        /\ svc[1].status = 404 <=> ~svc[1].known
        /\ UpstreamFailed => svc[1].status = 502

\* the answers that are not an upstream failure: a list of entries, and the
\* DART status "013" (no data)
Unfailed(resp) == resp.kind = "list" \/ NoData(resp)

\* no unit of the run that returned met an upstream failure
ReturnedWithoutFailure ==
    batch_pc = "returned" =>
        \A i \in 1..Len(unit[runs]) :
            unit[runs][i].resp # NoneVal => Unfailed(unit[runs][i].resp[1])

\* a cell that is cached stays cached
CacheKept == \A k \in DOMAIN api_cache : k \in DOMAIN api_cache'

\* a retrieval is issued only for a cell that is not cached
RetrievesOnlyUncached ==
    \A r \in 1..runs : \A i \in 1..Len(unit[r]) :
        unit[r][i].pc = "lookup" /\ unit'[r][i].pc = "fetch" => KeyOf(i) \notin DOMAIN api_cache

C17_CellsKept == [][CacheKept /\ RetrievesOnlyUncached]_vars

\* C17 (as claimed): a batch with a unit whose retrieval met an upstream
\* failure other than "no data" does not return stores (it raises); cached
\* cells stay cached, and a unit of a later run issues a retrieval only for
\* a cell that is not cached.
C17_BatchFailure == []ReturnedWithoutFailure /\ C17_CellsKept

\* a retrieval of the current run that the upstream answers with "no data"
\* ends without an error, with None as its result and as the cached entry
NoDataIsCached ==
    \A r \in {runs} \cap DOMAIN unit : \A i \in 1..Len(unit[r]) :
        /\ unit[r][i].pc = "fetch"
        /\ unit'[r][i].resp # NoneVal
        /\ NoData(unit'[r][i].resp[1])
        => /\ unit'[r][i].pc = "done"
           /\ unit'[r][i].data = NoneVal
           /\ KeyOf(i) \in DOMAIN api_cache'
           /\ api_cache'[KeyOf(i)] = NoneVal

\* a call for a cached key ends with the cached entry, without a retrieval
CachedIsReturned ==
    \A r \in 1..runs : \A i \in 1..Len(unit[r]) :
        /\ unit[r][i].pc = "lookup"
        /\ KeyOf(i) \in DOMAIN api_cache
        /\ unit'[r][i] # unit[r][i]
        => /\ unit'[r][i].pc \in {"done", "over"}
           /\ r = runs => unit'[r][i].data = api_cache[KeyOf(i)]
           /\ api_cache' = api_cache

\* merging an empty result changes no store and does not end the batch
EmptyMergeKeepsStores ==
    /\ batch_pc = "running"
    /\ merged' = Append(merged, NoneVal)
    => /\ UNCHANGED <<bs_snap, is_eqs, is_ytd_latest>>
       /\ batch_pc' = "running"

Present(reports) == reports # NoneVal

\* the stores that are returned are those of the periods that have data
OtherPeriodsReconciled ==
    batch_pc = "returned" =>
        Stores = AggregateAll(EmptyStores, SelectSeq(merged, Present), 1)

\* C18: "no data" from the upstream is an absence: the call returns None
\* without raising and caches None for the key, a later call on that day
\* returns the cached entry without a retrieval, and merging None changes
\* no store, so the stores of the batch are those of its other periods.
C18_NoDataIsAbsence ==
    /\ [][NoDataIsCached /\ CachedIsReturned /\ EmptyMergeKeepsStores]_vars
    /\ []OtherPeriodsReconciled

\* a batch returned stores with data although one of its retrievals was
\* answered with "no data"
C18_Witness ==
    /\ batch_pc = "returned"
    /\ \E i \in 1..Len(unit[runs]) :
          /\ unit[runs][i].resp # NoneVal
          /\ NoData(unit[runs][i].resp[1])
          /\ unit[runs][i].data = NoneVal
    /\ \E j \in 1..Len(merged) : merged[j] # NoneVal
    /\ bs_snap # <<>>

\* a run starts from empty stores
RunStartsFresh == runs' # runs => Stores' = EmptyStores /\ merged' = <<>>

\* merging changes no entry of the cache
MergeKeepsCache == merged' # merged => api_cache' = api_cache

\* the results of the units of the current run
RunResults == [i \in 1..Len(unit[runs]) |-> unit[runs][i].data]

\* the stores hold what the results merged by the current run aggregate to
\* from empty stores; the results merged are results of units of this run,
\* each merged at most once, and all of them when the run returns
StoresOfThisRun ==
    runs >= 1 =>
        /\ Stores = AggregateAll(EmptyStores, merged, 1)
        /\ \A c \in DOMAIN BagOf(merged) :
              /\ c \in DOMAIN BagOf(RunResults)
              /\ BagOf(merged)[c] <= BagOf(RunResults)[c]
        /\ batch_pc = "returned" => BagOf(merged) = BagOf(RunResults)

\* C20: every run starts from empty stores; in every state, after any
\* number of runs, the stores are the aggregation from empty stores of the
\* results the current run has merged, each unit once (nothing of an
\* earlier run is carried over or counted twice); merging leaves the cache
\* as it is.
C20_RunIsolation ==
    /\ []StoresOfThisRun
    /\ [][RunStartsFresh /\ MergeKeepsCache]_vars

\* a second run, served from the cache that a first run filled, returned
\* stores with data
C20_Witness ==
    /\ runs = 2
    /\ batch_pc = "returned"
    /\ Len(unit[runs]) = 2
    /\ \A i \in 1..Len(unit[runs]) :
          unit[runs][i].resp = NoneVal /\ unit[runs][i].data # NoneVal
    /\ bs_snap # <<>> /\ is_eqs # <<>>

(***************************************************************************)
(* Claims about faulty filing entries (under SpecItems)                    *)
(***************************************************************************)
\* amount text that is a decimal numeral: digits with an optional sign,
\* thousands separators and fraction (a missing key reads as "0")
WellFormedAmount(item) ==
    /\ item.thstrm_amount # Null
    /\ LET s == StripCommas(IF item.thstrm_amount = NoneVal THEN "0"
                            ELSE item.thstrm_amount[1])
           u == IF Len(s) > 0 /\ SubSeq(s, 1, 1) \in {"-", "+"}
                THEN SubSeq(s, 2, Len(s)) ELSE s
       IN  UnsignedDecimal(u) # NoneVal

\* a date that is present and in the format of its statement
WellFormedDate(item) ==
    /\ item.thstrm_dt \notin {NoneVal, Null}
    /\ LET s == Strip(item.thstrm_dt[1])
           t == Positions(s, "~")
       IN  IF item.sj_div = "IS" /\ t # {}
           THEN /\ Cardinality(t) = 1
                /\ StrpDate(Strip(SubSeq(s, 1, Min(t) - 1))) # NoneVal
                /\ StrpDate(Strip(SubSeq(s, Min(t) + 1, Len(s)))) # NoneVal
           ELSE StrpDate(FirstToken(s)) # NoneVal

Sound(item) == WellFormedAmount(item) /\ WellFormedDate(item)

\* C19 (as claimed): processing a list raises no error, and the stores it
\* yields are those of the list without its faulty entries (malformed
\* amount text, malformed or absent date): a faulty entry adds no snapshot
\* and no constraint and changes nothing for the other entries.
C19_FaultyEntryIsolated ==
    grp # NoneVal =>
        /\ grp[1].pc # "raised"
        /\ grp[1].pc = "done" =>
              Stores = AggregateOneReport(EmptyStores,
                           GroupReports(SelectSeq(grp[1].raw_items, Sound)).reports)

(***************************************************************************)
(* Claims about the shape of the normalised result (under SpecAgg)         *)
(***************************************************************************)
\* position of a label in the order "1", "2", "3", "4", "all"
LabelRank(l) ==
    CASE l = "1" -> 1 [] l = "2" -> 2 [] l = "3" -> 3 [] l = "4" -> 4
      [] l = "all" -> 5 [] OTHER -> 0

\* labels among the five, numeric ones ascending and "all" last
WellShapedQmap(qm) ==
    /\ Labels(qm) \subseteq FiveLabels
    /\ \A i, j \in 1..Len(qm) : i < j => LabelRank(qm[i].label) < LabelRank(qm[j].label)

\* C21 (as claimed): the normalised result has exactly the two consolidation
\* bases, each with exactly the statement kinds BS and IS, and every quarter
\* map has its labels among "1", "2", "3", "4", "all", the numeric ones in
\* ascending order and "all" last.
C21_OutputShape ==
    agg_pc = "done" =>
        /\ DOMAIN cons_fin[1] = ConsBases
        /\ \A cons \in ConsBases :
              /\ DOMAIN cons_fin[1][cons] = {"BS", "IS"}
              /\ \A k \in DOMAIN cons_fin[1][cons].BS : WellShapedQmap(cons_fin[1][cons].BS[k])
              /\ \A k \in DOMAIN cons_fin[1][cons].IS : WellShapedQmap(cons_fin[1][cons].IS[k])

(***************************************************************************)
(* Claims about the solving loop (under SpecSolve)                         *)
(***************************************************************************)
\* C22: whenever a visit of the inner loop changes the solved map, the
\* visited constraint had exactly one unsolved quarter, that quarter is the
\* only one added, it is the maximum of the set when the constraint is
\* cumulative, its value is the amount minus the sum of the already-solved
\* values of the other quarters of the set, and no other value changes.
C22_SolvingStep ==
    [][ (solve_pc = "for" /\ solved' # solved) =>
          LET c   == PassOrder(pending_by_len)[idx]
              new == SolvedQs(solved') \ SolvedQs(solved)
          IN  /\ Cardinality({ q \in c.qs : q \notin SolvedQs(solved) }) = 1
              /\ new = { q \in c.qs : q \notin SolvedQs(solved) }
              /\ c.ytd => new = {Max(c.qs)}
              /\ \A q \in new :
                    Get(solved', QKey(q))
                        = c.amt - SumSolved(c.qs \ {q}, solved)
              /\ \A q \in SolvedQs(solved) :
                    Get(solved', QKey(q)) = Get(solved, QKey(q)) ]_vars

\* C22 witness: the five-month figure {1, 2} -> 20, not cumulative, has just
\* solved quarter 1 (not its maximum) as 20 - 10 after quarter 2 was solved
C22_Witness ==
    /\ used # NoneVal
    /\ used[1].c = Constraint({1, 2}, 20, FALSE)
    /\ used[1].q = 1
    /\ Get(solved, QKey(2)) = 10
    /\ Get(solved, QKey(1)) = 10

\* the solving condition of the inner loop, on the quarters solved so far
CanSolve(c) ==
    LET unk == { q \in c.qs : q \notin SolvedQs(solved) }
    IN  /\ Cardinality(unk) = 1
        /\ c.ytd => unk = {Max(c.qs)}

\* C23: for every constraint list the outer loop terminates; once it has, no
\* constraint has exactly one unsolved quarter that passes the cumulative
\* gate; and the result holds exactly the solved quarters (plus "all" when it
\* is known), the unsolved ones being absent.
C23_TerminatesAtFixedPoint ==
    /\ <>(solve_pc \in {"annual", "done"})
    /\ [](solve_pc \in {"annual", "done"} =>
             \A i \in 1..Len(equations) : ~CanSolve(equations[i]))
    /\ [](SolveDone =>
             Labels(result[1]) \ {"all"} = { IntStr(q) : q \in SolvedQs(solved) })

\* C23 witness: the loop has ended with two constraints that each still have
\* unsolved quarters, and the result is empty
C23_Witness ==
    /\ SolveDone
    /\ equations = << Constraint({1, 2, 3}, 10, TRUE), Constraint({1, 2}, 20, FALSE) >>
    /\ annual_ytd = NoneVal
    /\ result[1] = <<>>

(***************************************************************************)
(* Claims about the tracked cumulative figure (under SpecEntries)          *)
(***************************************************************************)
\* positions of the cumulative constraints recorded for an account-year
CumulativeAt(key) ==
    IF key \in DOMAIN is_eqs
    THEN { i \in 1..Len(is_eqs[key]) : is_eqs[key][i].ytd }
    ELSE {}

\* the tracked figure of every account-year is the first recorded cumulative
\* constraint among those reaching the highest quarter
TracksHighestCumulative ==
    /\ DOMAIN is_ytd_latest = { key \in DOMAIN is_eqs : CumulativeAt(key) # {} }
    /\ \A key \in DOMAIN is_ytd_latest :
          LET hi    == Max({ Max(is_eqs[key][i].qs) : i \in CumulativeAt(key) })
              first == CHOOSE i \in CumulativeAt(key) :
                          /\ Max(is_eqs[key][i].qs) = hi
                          /\ \A j \in CumulativeAt(key) :
                                Max(is_eqs[key][j].qs) = hi => i <= j
          IN  is_ytd_latest[key] = <<hi, is_eqs[key][first].amt>>

\* the tracked figure changes only when a cumulative constraint reaching a
\* strictly higher quarter has just been recorded, and becomes that one
ReplacedOnlyByHigher ==
    \A key \in DOMAIN is_ytd_latest' :
        (key \notin DOMAIN is_ytd_latest \/ is_ytd_latest'[key] # is_ytd_latest[key]) =>
            LET c == is_eqs'[key][Len(is_eqs'[key])]
            IN  /\ Len(is_eqs'[key]) = (IF key \in DOMAIN is_eqs THEN Len(is_eqs[key]) ELSE 0) + 1
                /\ c.ytd
                /\ key \in DOMAIN is_ytd_latest => Max(c.qs) > is_ytd_latest[key][1]
                /\ is_ytd_latest'[key] = <<Max(c.qs), c.amt>>

\* C24: after any sequence of entries the tracked best cumulative figure of an
\* account-year is the amount of a recorded cumulative constraint reaching
\* the highest quarter among the cumulative constraints of that account-year
\* (the earliest-processed one on a tie); it is replaced only by a cumulative
\* entry reaching a strictly higher quarter, and never by a non-cumulative one.
C24_BestCumulativeTracking ==
    []TracksHighestCumulative /\ [][ReplacedOnlyByHigher]_vars

\* C24 witness: first-quarter figures 10 and then 20 and the half-year figure
\* 30 were processed; the tracked figure was 10 after the tie and is now 30
C24_Witness ==
    /\ merged = << ISEntry("CFS", "Rev", Date(Y0, 1, 1), Date(Y0, 3, 31), 10),
                   ISEntry("CFS", "Rev", Date(Y0, 1, 1), Date(Y0, 3, 31), 20),
                   ISEntry("CFS", "Rev", Date(Y0, 1, 1), Date(Y0, 6, 30), 30) >>
    /\ is_ytd_latest[<<"CFS", "Rev", Y0>>] = <<2, 30>>

(***************************************************************************)
(* Claims about the solver as a function (under SpecSolve)                 *)
(***************************************************************************)
\* the quarters the constraints mention, and candidate quarterly values
QuartersOf(eqs) == UNION { eqs[i].qs : i \in 1..Len(eqs) }
QuarterValues == { 10 * n : n \in (0 - 2)..4 }
Assignments(eqs) == [QuartersOf(eqs) -> QuarterValues]

RECURSIVE SumOver(_, _)
SumOver(S, A) ==
    IF S = {} THEN 0
    ELSE LET q == CHOOSE x \in S : TRUE IN A[q] + SumOver(S \ {q}, A)

\* the sum over each quarter set equals the constraint's amount
Satisfies(A, eqs) == \A i \in 1..Len(eqs) : SumOver(eqs[i].qs, A) = eqs[i].amt

\* C25: if an assignment of quarterly values satisfies every constraint of
\* the list, then in every order of the list every quarter the solver solves
\* has exactly that assignment's value.
C25_SoundOnConsistentData ==
    SolveDone =>
        \A A \in Assignments(equations) :
            Satisfies(A, equations) =>
                \A e \in PermutationsOf(equations) :
                    LET r == SolveYear(e, annual_ytd)
                    IN  \A q \in QuartersOf(equations) :
                            IntStr(q) \in Labels(r) => ValueOf(r, IntStr(q)) = A[q]

\* C25 witness: the half-year figure 20 and the first-quarter figure 10, both
\* cumulative, are satisfied by 10 and 10, and both quarters were solved so
C25_Witness ==
    /\ SolveDone
    /\ equations = << Constraint({1, 2}, 20, TRUE), Constraint({1}, 10, TRUE) >>
    /\ \E A \in Assignments(equations) : Satisfies(A, equations)
    /\ ValueOf(result[1], "1") = 10
    /\ ValueOf(result[1], "2") = 10

(***************************************************************************)
(* Claims about the annual total of the normalised result (under SpecAgg)  *)
(***************************************************************************)
\* C26 (as claimed): whenever the normalised output contains "all" for a flow
\* account-year, its value is the amount of a recorded cumulative constraint
\* covering quarters 1 to 4, or all four quarters are in the output and "all"
\* is their sum.
C26_AllIsFullYear ==
    agg_pc = "done" =>
        \A key \in DOMAIN is_eqs :
            LET out == cons_fin[1][key[1]].IS
                k   == <<key[2], IntStr(key[3])>>
            IN  (k \in DOMAIN out /\ "all" \in Labels(out[k])) =>
                    \/ \E i \in 1..Len(is_eqs[key]) :
                          /\ is_eqs[key][i].ytd
                          /\ is_eqs[key][i].qs = 1..4
                          /\ is_eqs[key][i].amt = ValueOf(out[k], "all")
                    \/ /\ QuarterLabels \subseteq Labels(out[k])
                       /\ ValueOf(out[k], "all")
                              = ValueOf(out[k], "1") + ValueOf(out[k], "2")
                                 + ValueOf(out[k], "3") + ValueOf(out[k], "4")

(***************************************************************************)
(* Claims about permuted and extended constraint lists (under SpecSolve)   *)
(***************************************************************************)
\* the quarters of a result: its labels other than "all"
SolvedLabels(r) == Labels(r) \ {"all"}

\* C28: the set of quarters the solver solves is the same for every
\* permutation of the constraint list, also when no assignment satisfies the
\* constraints and the solved values differ between permutations.
C28_SolvedSetDeterminism ==
    SolveDone =>
        \A e \in PermutationsOf(equations) :
            SolvedLabels(SolveYear(e, annual_ytd)) = SolvedLabels(result[1])

\* C28 witness: the restated first-quarter figure and the half-year figure in
\* an order that gives quarter 2 another value than a second order does, both
\* orders solving quarters 1 and 2
C28_Witness ==
    /\ SolveDone
    /\ equations \in PermutationsOf(Conflicting)
    /\ ~Consistent(equations)
    /\ SolvedLabels(result[1]) = {"1", "2"}
    /\ \E e \in PermutationsOf(equations) :
          /\ SolvedLabels(SolveYear(e, annual_ytd)) = {"1", "2"}
          /\ ValueOf(SolveYear(e, annual_ytd), "2") # ValueOf(result[1], "2")

\* the list with a copy of its i-th constraint appended, solved
WithCopy(i) == SolveYear(Append(equations, equations[i]), annual_ytd)

\* C29 (as claimed): appending a copy of a constraint already in the list
\* leaves the result of the solver unchanged.
C29_DuplicateHarmless ==
    SolveDone => \A i \in 1..Len(equations) : WithCopy(i) = result[1]

\* C29 (amended): appending a copy of a constraint already in the list leaves
\* the keys of the result unchanged, and its values too whenever some
\* assignment of quarterly values satisfies every constraint of the list.
C29_DuplicateHarmlessWhenConsistent ==
    SolveDone =>
        \A i \in 1..Len(equations) :
            /\ Labels(WithCopy(i)) = Labels(result[1])
            /\ WithCopy(i) = result[1] \/ ~Consistent(equations)

\* C29 witness: the consistent four-constraint example is solved completely,
\* and so, with the same values, is the list with its cumulative nine-month
\* figure appended a second time
C29_Witness ==
    /\ SolveDone
    /\ equations = PrimingFull
    /\ annual_ytd = NoneVal
    /\ Consistent(equations)
    /\ WithCopy(1) = result[1]
    /\ ValueOf(WithCopy(1), "3") = 40

====
